---------------------------- MODULE Spec2Model ----------------------------
(***************************************************************************)
(* Model of the places-server cache-aside layer.                           *)
(*                                                                         *)
(*   Spec        : getDirectionsDistance (src/directions.js) run by        *)
(*                 NumCallers concurrent requests, for any of the queries, *)
(*                 over one shared store whose commands may reject.        *)
(*   SpecContend : one more request, all for one query, no command of the  *)
(*                 store rejecting.                                        *)
(*   SpecPlaces  : getNearbyPlaces (src/unnamed/part_003) run by           *)
(*                 NumCallers concurrent requests over that store.         *)
(*                                                                         *)
(* Units.  Coordinates are integers counting 1e-4 degrees (the step of the *)
(* geocoding probe grid), so one 0.001-degree grid cell is CellUnits = 10  *)
(* units.  Time is counted in ticks of LOCK_WAIT_MS (200 ms), the smallest *)
(* delay the code asks for; only a waiter measures it (Date.now() - start) *)
(* and the model keeps that one clock per waiter, while the expiry of a    *)
(* store entry is an event that may come at any point after its creation.  *)
(* A distance is an integer counting 1e-9 miles                            *)
(* (meters * 0.000621371 is meters * 621371 of them), or NaN.  A string is *)
(* a sequence of one-character strings.                                    *)
(***************************************************************************)
EXTENDS Integers, Sequences, FiniteSets, TLC

(***************************************************************************)
(* Bounds of the model                                                     *)
(***************************************************************************)
\* concurrent requests of Spec; SpecContend has one more
NumCallers == 2
\* ticks by which a sleep may overrun its LOCK_WAIT_MS
MaxLag == 0

Callers == 1..NumCallers
Contenders == 1..(NumCallers + 1)

(***************************************************************************)
(* Program constants, src/directions.js                                    *)
(***************************************************************************)
CACHE_TTL_SECONDS == 86400
LOCK_TTL_SECONDS == 10
LOCK_WAIT_MS == 200
LOCK_MAX_WAIT_MS == 5000
AXIOS_TIMEOUT_MS == 10000
\* roundCoord floors to 1/1000 degree: 10 coordinate units
CellUnits == 10
\* 0.000621371 miles per meter, counted in 1e-9 miles
NANO_MILES_PER_METER == 621371
\* R = 3958.8 miles: the arc of a hundredth of a coordinate unit,
\* R * (pi / 180) * 1e-6 miles, counted in 1e-9 miles
ARC_PER_UNIT == 69094

TickMs == LOCK_WAIT_MS
LockTtlTicks == (LOCK_TTL_SECONDS * 1000) \div TickMs
MaxWaitTicks == LOCK_MAX_WAIT_MS \div TickMs
SleepTicks == LOCK_WAIT_MS \div TickMs
TimeoutTicks == AXIOS_TIMEOUT_MS \div TickMs

\* null, as redis.get resolves for a missing key: no string of characters
Null == <<"null">>
\* the number NaN: distances are never negative, so a negative stands for it
NaN == 0 - 1
None == 0

Min(a, b) == IF a < b THEN a ELSE b

(***************************************************************************)
(* JavaScript numbers and strings                                          *)
(***************************************************************************)
DigitChars == <<"0", "1", "2", "3", "4", "5", "6", "7", "8", "9">>
IsDigit(ch) == \E i \in 1..10 : DigitChars[i] = ch
DigitValue(ch) == (CHOOSE i \in 1..10 : DigitChars[i] = ch) - 1
Pow10(n) == IF n = 0 THEN 1 ELSE [i \in 1..9 |->
              CASE i = 1 -> 10 [] i = 2 -> 100 [] i = 3 -> 1000 [] i = 4 -> 10000
                [] i = 5 -> 100000 [] i = 6 -> 1000000 [] i = 7 -> 10000000
                [] i = 8 -> 100000000 [] OTHER -> 1000000000][n]
NanoPerMile == Pow10(9)

RECURSIVE IntDigits(_)
\* decimal digits of a natural number, most significant first
IntDigits(n) ==
    IF n < 10 THEN <<DigitChars[n + 1]>>
    ELSE Append(IntDigits(n \div 10), DigitChars[(n % 10) + 1])

RECURSIVE FracDigits(_, _)
\* the digits of f / 10^width after the point, trailing zeros dropped
FracDigits(f, width) ==
    IF f = 0 THEN <<>>
    ELSE <<DigitChars[(f \div Pow10(width - 1)) + 1]>>
           \o FracDigits(f % Pow10(width - 1), width - 1)

\* a toString that keeps the integer part only
NumberToStringWhole(x) ==
    IF x = NaN THEN <<"N", "a", "N">> ELSE IntDigits(x \div NanoPerMile)

\* Number.prototype.toString of a non-negative distance: "NaN", the integer
\* part, and a point with the fraction only when the fraction is not zero
NumberToString(x) ==
    IF x = NaN THEN <<"N", "a", "N">>
    ELSE IntDigits(x \div NanoPerMile)
           \o (IF x % NanoPerMile = 0 THEN <<>>
               ELSE <<".">> \o FracDigits(x % NanoPerMile, 9))

RECURSIVE DigitsValue(_)
DigitsValue(s) ==
    IF s = <<>> THEN 0
    ELSE DigitsValue(SubSeq(s, 1, Len(s) - 1)) * 10 + DigitValue(s[Len(s)])

\* Number(string) for the strings the store can hold: decimal literals with
\* at most 9 fraction digits; the empty string is 0; anything else is NaN
StringToNumber(s) ==
    LET dots == {i \in 1..Len(s) : s[i] = "."}
        dot == IF dots = {} THEN Len(s) + 1 ELSE CHOOSE i \in dots : TRUE
        ip == SubSeq(s, 1, dot - 1)
        fp == SubSeq(s, dot + 1, Len(s))
        wellFormed == /\ Cardinality(dots) <= 1
                      /\ \A i \in 1..Len(s) : i \in dots \/ IsDigit(s[i])
                      /\ Len(fp) <= 9
                      /\ (dots # {} => ip # <<>> \/ fp # <<>>)
    IN  IF ~wellFormed THEN NaN
        ELSE DigitsValue(ip) * NanoPerMile + DigitsValue(fp) * Pow10(9 - Len(fp))

\* JavaScript truthiness of what redis.get resolves to: null (no entry) and
\* the empty string are falsy, every other string is truthy
Truthy(v) == v # Null /\ v # <<>>

(***************************************************************************)
(* Pure functions of src/directions.js                                     *)
(***************************************************************************)
\* Math.floor(value * 1000) / 1000 of a coordinate that is clear of the edges
\* of its cell, as those of the queries are: \div rounds toward minus
\* infinity.  roundCoordOfDouble is the function on any double.
roundCoord(value) == (value \div CellUnits) * CellUnits

RECURSIVE FractionString(_, _)
\* the decimals of frac / 10^width, without trailing zeros
FractionString(frac, width) ==
    IF frac = 0 THEN ""
    ELSE ToString(frac \div Pow10(width - 1))
            \o FractionString(frac % Pow10(width - 1), width - 1)

\* `${value}` of a coordinate: the decimal numeral of its degrees
coordToString(value) ==
    LET abs == IF value < 0 THEN 0 - value ELSE value
        perDegree == CellUnits * 1000
    IN  (IF value < 0 THEN "-" ELSE "")
            \o ToString(abs \div perDegree)
            \o (IF abs % perDegree = 0 THEN ""
                ELSE "." \o FractionString(abs % perDegree, 4))

\* `directions:${oLat}:${oLng}:${dLat}:${dLng}`
makeCacheKey(oLat, oLng, dLat, dLng) ==
    "directions:" \o coordToString(oLat) \o ":" \o coordToString(oLng)
        \o ":" \o coordToString(dLat) \o ":" \o coordToString(dLng)

\* `lock:${cacheKey}`
makeLockKey(cacheKey) == "lock:" \o cacheKey

RECURSIVE SqrtSearch(_, _, _)
SqrtSearch(x, lo, hi) ==
    IF lo >= hi THEN lo
    ELSE LET mid == (lo + hi + 1) \div 2
         IN  IF mid * mid <= x THEN SqrtSearch(x, mid, hi)
             ELSE SqrtSearch(x, lo, mid - 1)
\* floor of the square root
Isqrt(x) == SqrtSearch(x, 0, 40000)

\* The haversine distance in miles.  The model's points lie within a few
\* cells of the equator and of each other, where cos(lat) is 1 and sin, asin
\* are the identity to the precision kept: 2 R asin(sqrt(a)) is
\* R * sqrt(dLat^2 + dLng^2) with the differences in radians.
straightLineMiles(lat1, lng1, lat2, lng2) ==
    LET dLat == lat2 - lat1
        dLng == lng2 - lng1
    IN  ARC_PER_UNIT * Isqrt(10000 * (dLat * dLat + dLng * dLng))

(***************************************************************************)
(* Inputs                                                                  *)
(***************************************************************************)
\* Direction queries.  The first two have their origins in one grid cell and
\* their destinations in one grid cell; the third has origin and
\* destination in the same cell.
DirQueries ==
    { [originLat |-> 12, originLng |-> 0 - 18, destLat |-> 25, destLng |-> 0 - 31],
      [originLat |-> 17, originLng |-> 0 - 11, destLat |-> 29, destLng |-> 0 - 39],
      [originLat |-> 12, originLng |-> 0 - 18, destLat |-> 16, destLng |-> 0 - 13] }

\* routes[0].legs[0].distance.value of a directions response, in meters
Meters == {0, 1609}

\* What the directions request can come to.  "routes": a body with a route and
\* its distance; "noValue": a body with a route whose leg lacks
\* distance.value; "noRoutes": routes is empty; "malformed": a body without
\* routes; "non2xx"; "timeout".
DirOutcomes ==
    [kind : {"routes"}, meters : Meters]
      \cup [kind : {"noValue", "noRoutes", "malformed", "non2xx", "timeout"},
            meters : {0}]

\* lines 70-76 of getDirectionsDistance
DirCacheKey(q) ==
    makeCacheKey(roundCoord(q.originLat), roundCoord(q.originLng),
                 roundCoord(q.destLat), roundCoord(q.destLng))
DirLockKey(q) == makeLockKey(DirCacheKey(q))

\* the keys of the queries, computed once
DirKeys == [q \in DirQueries |-> [cache |-> DirCacheKey(q), lock |-> DirLockKey(q)]]
CacheKeys == {DirCacheKey(q) : q \in DirQueries}
LockKeys == {DirLockKey(q) : q \in DirQueries}

(***************************************************************************)
(* The store (redis)                                                       *)
(***************************************************************************)
NoEntry == [value |-> Null, ttl |-> 0]
\* redis.get: the value, or null when the key holds no entry
redisGet(store, key) == store[key].value
\* redis.setEx(key, seconds, value)
\* a write that the store drops
redisSetExLost(store, key, seconds, value) == store
redisSetEx(store, key, seconds, value) ==
    [store EXCEPT ![key] = [value |-> value, ttl |-> seconds]]
\* redis.set(key, "1", {NX, EX}): whether the key was set (no live entry)
redisSetNX(locks, key) == locks[key] = 0
\* acquireLock: truthy ("OK") exactly when SET NX set the key
\* a create that overwrites the entry and its expiry: SET without NX
acquireLockRenews(locks, lockKey) == TRUE
acquireLock(locks, lockKey) == redisSetNX(locks, lockKey)
\* a loop that is entered once more when the bound has just been reached
waitLoopContinuesAtBound(elapsed) == elapsed <= MaxWaitTicks
\* the while condition of the wait loop: Date.now() - start < LOCK_MAX_WAIT_MS
waitLoopContinues(elapsed) == elapsed < MaxWaitTicks
\* a wait loop that throws when its bound has passed
afterWaitLoopThrows == "rejected"
\* where the wait loop leaves by its bound (lines 111-122): "LOCK TIMEOUT -
\* proceeding anyway", the call goes on to the directions request
afterWaitLoop == "fetch"
\* the expiry a lock entry is created with: EX LOCK_TTL_SECONDS
lockTtl == LOCK_TTL_SECONDS
\* the TTL getDirectionsDistance writes a provider distance with (line 140)
successTtl == CACHE_TTL_SECONDS
\* a fallback entry that lives only as long as a lock
fallbackTtlShort == LOCK_TTL_SECONDS
\* the TTL getDirectionsDistance writes a fallback distance with (line 158)
fallbackTtl == CACHE_TTL_SECONDS

(***************************************************************************)
(* Place search, src/unnamed/part_003 lines 28-300                         *)
(***************************************************************************)
PLACES_CACHE_TTL_SECONDS == 2592000
\* the radius of the first and of the second nearby search (lines 188, 215)
FIRST_RADIUS == 100
SECOND_RADIUS == 200
\* slice(0, 10) of line 271 and the break of line 87
MAX_PLACES == 10
\* 6371e3 m * (pi / 180) * 1e-6: the arc of a hundredth of a coordinate
\* unit, counted in millimetres
MM_PER_UNIT == 111

\* undefined, where JavaScript finds no property
Undefined == <<"undefined">>
UndefinedId == "undefined"
\* null in the place of a rating
NullRating == 0 - 1

UpperChars ==
    <<"A", "B", "C", "D", "E", "F", "G", "H", "I", "J", "K", "L", "M", "N", "O", "P", "Q", "R", "S", "T", "U", "V", "W", "X", "Y", "Z">>
LowerChars ==
    <<"a", "b", "c", "d", "e", "f", "g", "h", "i", "j", "k", "l", "m", "n", "o", "p", "q", "r", "s", "t", "u", "v", "w", "x", "y", "z">>
\* String.prototype.toLowerCase
toLowerCase(s) ==
    [i \in 1..Len(s) |->
        IF \E j \in 1..26 : UpperChars[j] = s[i]
        THEN LowerChars[CHOOSE j \in 1..26 : UpperChars[j] = s[i]]
        ELSE s[i]]
\* String.prototype.startsWith
startsWith(s, prefix) ==
    Len(prefix) <= Len(s) /\ SubSeq(s, 1, Len(prefix)) = prefix
\* String.prototype.includes
includes(s, sub) ==
    \E i \in 0..(Len(s) - Len(sub)) : SubSeq(s, i + 1, i + Len(sub)) = sub

\* lines 131-145
majorRetailers ==
    << <<"w", "a", "l", "m", "a", "r", "t", " ", "s", "u", "p", "e", "r", "c", "e", "n", "t", "e", "r">>,
       <<"w", "a", "l", "m", "a", "r", "t", " ", "n", "e", "i", "g", "h", "b", "o", "r", "h", "o", "o", "d", " ", "m", "a", "r", "k", "e", "t">>,
       <<"t", "a", "r", "g", "e", "t">>,
       <<"d", "o", "l", "l", "a", "r", " ", "g", "e", "n", "e", "r", "a", "l">>,
       <<"k", "r", "o", "g", "e", "r">>,
       <<"p", "u", "b", "l", "i", "x">>,
       <<"w", "h", "o", "l", "e", " ", "f", "o", "o", "d", "s">>,
       <<"t", "r", "a", "d", "e", "r", " ", "j", "o", "e">>,
       <<"a", "l", "d", "i">>,
       <<"c", "o", "s", "t", "c", "o">>,
       <<"s", "a", "m", "'", "s", " ", "c", "l", "u", "b">>,
       <<"c", "v", "s">>,
       <<"w", "a", "l", "g", "r", "e", "e", "n", "s">> >>
\* lines 148-154
blacklistKeywords ==
    << <<"p", "h", "a", "r", "m", "a", "c", "y">>,
       <<"a", "u", "t", "o", " ", "c", "a", "r", "e">>,
       <<"v", "i", "s", "i", "o", "n", " ", "c", "e", "n", "t", "e", "r">>,
       <<"t", "i", "r", "e", " ", "c", "e", "n", "t", "e", "r">>,
       <<"o", "p", "t", "i", "c", "a", "l">> >>
\* lines 115-128
foodTypes ==
    { "restaurant", "cafe", "food", "meal_delivery",
      "meal_takeaway", "bakery", "bar", "supermarket",
      "grocery_or_supermarket", "store", "shopping_mall", "convenience_store" }

\* groceryMode === 'true' || groceryMode === true
isGroceryMode(groceryMode) == groceryMode = "true"

makePlacesCacheKeyUnseparated(lat, lng, radius, groceryMode) ==
    "places:v5:" \o coordToString(lat) \o coordToString(lng) \o ToString(radius)
        \o (IF isGroceryMode(groceryMode) THEN "grocery" ELSE "normal")
\* `places:v5:${lat}:${lng}:${radius}:${mode}`
makePlacesCacheKey(lat, lng, radius, groceryMode) ==
    "places:v5:" \o coordToString(lat) \o ":" \o coordToString(lng)
        \o ":" \o ToString(radius)
        \o ":" \o (IF isGroceryMode(groceryMode) THEN "grocery" ELSE "normal")

\* calculateDistance: the haversine distance in millimetres, for points
\* within a few cells of the equator and of each other
calculateDistance(lat1, lng1, lat2, lng2) ==
    LET dLat == lat2 - lat1
        dLng == lng2 - lng1
    IN  MM_PER_UNIT * Isqrt(10000 * (dLat * dLat + dLng * dLng))

\* (p.name || '').toLowerCase()
lowerName(p) == IF p.name = Undefined THEN <<>> ELSE toLowerCase(p.name)
\* majorRetailers.some(r => name === r || name.startsWith(r))
isMajorRetailer(p) ==
    LET name == lowerName(p)
    IN  \E i \in 1..Len(majorRetailers) :
            name = majorRetailers[i] \/ startsWith(name, majorRetailers[i])
\* a deny-list test on the name as the provider wrote it
isBlacklistedAsWritten(p) ==
    LET name == IF p.name = Undefined THEN <<>> ELSE p.name
    IN  \E i \in 1..Len(blacklistKeywords) : includes(name, blacklistKeywords[i])
\* blacklistKeywords.some(keyword => name.includes(keyword))
isBlacklisted(p) ==
    LET name == lowerName(p)
    IN  \E i \in 1..Len(blacklistKeywords) : includes(name, blacklistKeywords[i])
\* p.types?.some(t => foodTypes.includes(t))
hasFoodType(p) == p.types \cap foodTypes # {}
\* the predicate of filterPlaces (lines 158-179)
keepPlaceAnyMode(p, groceryMode) ==
    IF isBlacklisted(p) THEN FALSE ELSE hasFoodType(p) \/ isMajorRetailer(p)
keepPlace(p, groceryMode) ==
    IF isBlacklisted(p) THEN FALSE
    ELSE IF isGroceryMode(groceryMode) THEN isMajorRetailer(p)
    ELSE hasFoodType(p) \/ isMajorRetailer(p)
\* filterPlaces (lines 157-180)
filterPlaces(results, groceryMode) ==
    SelectSeq(results, LAMBDA p : keepPlace(p, groceryMode))

\* the item of lines 241-253
placeWithDistance(p, rLat, rLng) ==
    [ place_id |-> p.place_id,
      name |-> IF p.name = Undefined THEN <<>> ELSE p.name,
      address |-> IF p.vicinity = Undefined THEN <<>> ELSE p.vicinity,
      lat |-> p.lat,
      lng |-> p.lng,
      rating |-> p.rating,
      distance |-> calculateDistance(rLat, rLng, p.lat, p.lng),
      isMajorRetailer |-> isMajorRetailer(p) ]

\* a comparator that looks at the distance only
sortsBeforeByDistance(a, b) == a.distance - b.distance < 0
\* the comparator of lines 257-264 is negative: a goes before b
sortsBefore(a, b) ==
    IF a.isMajorRetailer /\ ~b.isMajorRetailer THEN TRUE
    ELSE IF ~a.isMajorRetailer /\ b.isMajorRetailer THEN FALSE
    ELSE a.distance - b.distance < 0

RECURSIVE insertSorted(_, _)
\* x goes before the first item it sorts before, so equal items keep their order
insertSorted(x, sorted) ==
    IF sorted = <<>> THEN <<x>>
    ELSE IF sortsBefore(x, Head(sorted)) THEN <<x>> \o sorted
    ELSE <<Head(sorted)>> \o insertSorted(x, Tail(sorted))

RECURSIVE sortPlaces(_)
\* Array.prototype.sort with that comparator: a stable sort
sortPlaces(items) ==
    IF items = <<>> THEN <<>>
    ELSE insertSorted(items[Len(items)], sortPlaces(SubSeq(items, 1, Len(items) - 1)))

\* lines 271-274: the helper fields are removed
withoutDistance(it) ==
    [ place_id |-> it.place_id, name |-> it.name, address |-> it.address,
      lat |-> it.lat, lng |-> it.lng, rating |-> it.rating ]

rankPlacesWhole(filtered, rLat, rLng) ==
    LET withDistance == [i \in 1..Len(filtered) |->
                            placeWithDistance(filtered[i], rLat, rLng)]
        sorted == sortPlaces(withDistance)
    IN  [i \in 1..Len(sorted) |-> withoutDistance(sorted[i])]
\* lines 232-275: map, sort, slice(0, 10), map
rankPlaces(filtered, rLat, rLng) ==
    LET withDistance == [i \in 1..Len(filtered) |->
                            placeWithDistance(filtered[i], rLat, rLng)]
        sorted == sortPlaces(withDistance)
        top == SubSeq(sorted, 1, Min(Len(sorted), MAX_PLACES))
    IN  [i \in 1..Len(top) |-> withoutDistance(top[i])]

\* the probe offsets of fetchGeocodingFallback (lines 64-74), in coordinate units
offsets ==
    << <<0, 0>>, <<1, 0>>, <<0 - 1, 0>>, <<0, 1>>, <<0, 0 - 1>>,
       <<1, 1>>, <<0 - 1, 1>>, <<1, 0 - 1>>, <<0 - 1, 0 - 1>> >>

\* an item at the grid cell of the query
fallbackItemAtCell(address, lat, lng) ==
    [ name |-> <<>>, address |-> address, lat |-> roundCoord(lat),
      lng |-> roundCoord(lng), rating |-> NullRating ]
\* lines 287-293: the item of a fallback result, at the coordinates of the query
fallbackItem(address, lat, lng) ==
    [ name |-> <<>>, address |-> address, lat |-> lat, lng |-> lng,
      rating |-> NullRating ]

\* JSON.stringify of one item: a property whose value is undefined is left out
stringifyItem(it) ==
    IF "place_id" \in DOMAIN it /\ it.place_id = UndefinedId
    THEN [ name |-> it.name, address |-> it.address, lat |-> it.lat,
           lng |-> it.lng, rating |-> it.rating ]
    ELSE it
\* JSON.stringify of a list: the bracketed texts of its items
JSONstringify(list) ==
    <<"[">> \o [i \in 1..Len(list) |-> stringifyItem(list[i])] \o <<"]">>
\* JSON.parse of such a text
JSONparse(text) == [i \in 1..(Len(text) - 2) |-> text[i + 1]]

(***************************************************************************)
(* roundCoord on the numbers it is given.  A coordinate is a double:       *)
(* (-1)^neg * m * 2^e with m of 53 bits, held as three limbs of 21 bits,   *)
(* the most significant first.                                             *)
(***************************************************************************)
RECURSIVE Pow2(_)
Pow2(n) == IF n = 0 THEN 1 ELSE 2 * Pow2(n - 1)
LimbBits == 21
Limb == Pow2(LimbBits)

\* m * 1000 as an integer of three limbs (it has 62 or 63 bits)
times1000(m) ==
    LET c == m[3] * 1000
        b == m[2] * 1000 + c \div Limb
        a == m[1] * 1000 + b \div Limb
    IN  <<a, b % Limb, c % Limb>>

\* the integer of three limbs shifted right by s bits, 0 < s < LimbBits
shiftRight(m, s) ==
    LET low == Pow2(s)
        high == Pow2(LimbBits - s)
    IN  << m[1] \div low,
           m[2] \div low + (m[1] % low) * high,
           m[3] \div low + (m[2] % low) * high >>

\* the integer of three limbs plus one
increment(m) ==
    IF m[3] + 1 < Limb THEN <<m[1], m[2], m[3] + 1>>
    ELSE IF m[2] + 1 < Limb THEN <<m[1], m[2] + 1, 0>>
    ELSE <<m[1] + 1, 0, 0>>

\* value * 1000: the product rounded to 53 bits, to nearest and on a tie to even
multiply1000(value) ==
    LET product == times1000(value.m)
        s == IF product[1] >= Pow2(LimbBits - 1) THEN 10 ELSE 9
        kept == shiftRight(product, s)
        rest == product[3] % Pow2(s)
        half == Pow2(s - 1)
        up == rest > half \/ (rest = half /\ kept[3] % 2 = 1)
        rounded == IF up THEN increment(kept) ELSE kept
    IN  IF rounded[1] = Pow2(11)
        THEN [neg |-> value.neg, m |-> <<Pow2(10), 0, 0>>, e |-> value.e + s + 1]
        ELSE [neg |-> value.neg, m |-> rounded, e |-> value.e + s]

\* the integer of three limbs times 2^e, for an e below -LimbBits and a
\* magnitude below 2^31: its whole part, and whether a fraction is left
wholePart(m, e) ==
    LET k == 0 - e
    IN  IF k >= 2 * LimbBits
        THEN (IF k - 2 * LimbBits > LimbBits THEN 0
              ELSE m[1] \div Pow2(k - 2 * LimbBits))
        ELSE m[1] * Pow2(2 * LimbBits - k) + m[2] \div Pow2(k - LimbBits)
hasFraction(m, e) ==
    LET k == 0 - e
    IN  IF k >= 2 * LimbBits
        THEN \/ k - 2 * LimbBits > LimbBits
             \/ m[1] % Pow2(k - 2 * LimbBits) # 0 \/ m[2] # 0 \/ m[3] # 0
        ELSE m[2] % Pow2(k - LimbBits) # 0 \/ m[3] # 0

\* the largest integer that is not above (-1)^neg * m * 2^e
floorOf(neg, m, e) ==
    IF neg
    THEN 0 - (wholePart(m, e) + (IF hasFraction(m, e) THEN 1 ELSE 0))
    ELSE wholePart(m, e)

\* Math.floor of a double
MathFloor(d) == floorOf(d.neg, d.m, d.e)

\* roundCoord (src/directions.js lines 16-18, part_003 lines 38-40):
\* Math.floor(value * 1000) / 1000, in coordinate units.  The quotient is
\* the double nearest to n / 1000, one for each n.
roundCoordOfDouble(value) == MathFloor(multiply1000(value)) * CellUnits

\* the 0.001-degree grid cell a double lies in: the floor of its thousandfold,
\* without rounding
gridCell(value) == floorOf(value.neg, times1000(value.m), value.e)

\* Raw coordinates: the doubles that the numerals denote in JavaScript
RawCoords ==
    { [ numeral |-> "1.001", neg |-> FALSE, m |-> <<1025, 50331, 1358954>>, e |-> 0 - 52 ],
      [ numeral |-> "1.0015", neg |-> FALSE, m |-> <<1025, 1124073, 989856>>, e |-> 0 - 52 ],
      [ numeral |-> "1.0025", neg |-> FALSE, m |-> <<1026, 1174405, 251658>>, e |-> 0 - 52 ],
      [ numeral |-> "33.749", neg |-> FALSE, m |-> <<1079, 2030043, 285213>>, e |-> 0 - 47 ],
      [ numeral |-> "33.7495", neg |-> FALSE, m |-> <<1079, 2063597, 1191182>>, e |-> 0 - 47 ],
      [ numeral |-> "33.7505", neg |-> FALSE, m |-> <<1080, 33554, 905970>>, e |-> 0 - 47 ],
      [ numeral |-> "-84.388", neg |-> TRUE, m |-> <<1350, 436207, 1291846>>, e |-> 0 - 46 ],
      [ numeral |-> "-84.3885", neg |-> TRUE, m |-> <<1350, 452984, 1744830>>, e |-> 0 - 46 ],
      [ numeral |-> "-84.3875", neg |-> TRUE, m |-> <<1350, 419430, 838861>>, e |-> 0 - 46 ],
      [ numeral |-> "0.11699999999999999", neg |-> FALSE, m |-> <<1916, 1946157, 117440>>, e |-> 0 - 56 ],
      [ numeral |-> "0.1165", neg |-> FALSE, m |-> <<1908, 1543503, 1828717>>, e |-> 0 - 56 ],
      [ numeral |-> "0.1175", neg |-> FALSE, m |-> <<1925, 251658, 503316>>, e |-> 0 - 56 ] }


(***************************************************************************)
(* Place search, the two earlier versions of src/places.js: lines 1-149    *)
(* ("v1", keyed by type) and lines 150-386 ("v4")                          *)
(***************************************************************************)
Versions == {"v1", "v4", "v5"}
PLACES_CACHE_TTL_SECONDS_V1 == 21600
PLACES_CACHE_TTL_SECONDS_V4 == 10
\* the TTL of the cache write, by version
placesTtl(version) ==
    CASE version = "v1" -> PLACES_CACHE_TTL_SECONDS_V1
      [] version = "v4" -> PLACES_CACHE_TTL_SECONDS_V4
      [] OTHER -> PLACES_CACHE_TTL_SECONDS
\* Math.max(radius, 200) of v1 (line 95)
RADIUS_FLOOR_V1 == 200
\* the radius of the second search of v4 (line 260), sent for a radius below
\* RETRY_BELOW_V4 (line 252)
SECOND_RADIUS_V4 == 500
RETRY_BELOW_V4 == 1000
\* slice(0, 15) of v4 (line 357)
MAX_PLACES_V4 == 15

\* `places:${lat}:${lng}:${radius}:${type}`
makePlacesCacheKeyV1(lat, lng, radius, type) ==
    "places:" \o coordToString(lat) \o ":" \o coordToString(lng)
        \o ":" \o ToString(radius) \o ":" \o type
\* `places:v4:${lat}:${lng}:${radius}`
makePlacesCacheKeyV4(lat, lng, radius) ==
    "places:v4:" \o coordToString(lat) \o ":" \o coordToString(lng)
        \o ":" \o ToString(radius)

\* v1, line 107
foodTypesV1 ==
    { "restaurant", "cafe", "food", "meal_delivery", "meal_takeaway", "bakery", "bar" }
\* v1, lines 109-114: the food candidates, or all of them when there is none
resultsToUseV1(results) ==
    LET foodPlaces == SelectSeq(results, LAMBDA p : p.types \cap foodTypesV1 # {})
    IN  IF Len(foodPlaces) > 0 THEN foodPlaces ELSE results
\* v1, lines 118-126: the item of a candidate
placeItem(p) ==
    [ place_id |-> p.place_id,
      name |-> IF p.name = Undefined THEN <<>> ELSE p.name,
      address |-> IF p.vicinity = Undefined THEN <<>> ELSE p.vicinity,
      lat |-> p.lat, lng |-> p.lng, rating |-> p.rating ]
\* v1, line 118: slice(0, 10), then map
rankPlacesV1(resultsToUse) ==
    [i \in 1..Min(Len(resultsToUse), MAX_PLACES) |-> placeItem(resultsToUse[i])]

\* v4, lines 289-303
majorRetailersV4 ==
    << <<"w", "a", "l", "m", "a", "r", "t", " ", "s", "u", "p", "e", "r", "c", "e", "n", "t", "e", "r">>,
       <<"w", "a", "l", "m", "a", "r", "t", " ", "n", "e", "i", "g", "h", "b", "o", "r", "h", "o", "o", "d", " ", "m", "a", "r", "k", "e", "t">>,
       <<"t", "a", "r", "g", "e", "t">>,
       <<"d", "o", "l", "l", "a", "r", " ", "g", "e", "n", "e", "r", "a", "l">>,
       <<"k", "r", "o", "g", "e", "r">>,
       <<"p", "u", "b", "l", "i", "x">>,
       <<"w", "h", "o", "l", "e", " ", "f", "o", "o", "d", "s">>,
       <<"t", "r", "a", "d", "e", "r", " ", "j", "o", "e">>,
       <<"a", "l", "d", "i">>,
       <<"c", "o", "s", "t", "c", "o">>,
       <<"s", "a", "m", "'", "s", " ", "c", "l", "u", "b">>,
       <<"c", "v", "s", " ", "p", "h", "a", "r", "m", "a", "c", "y">>,
       <<"w", "a", "l", "g", "r", "e", "e", "n", "s">> >>
\* v4, lines 306-327: food types or major retailers; the second filter (food
\* types only) of an empty result
filterPlacesV4(results) ==
    LET isRetailer(p) ==
            LET name == lowerName(p)
            IN  \E i \in 1..Len(majorRetailersV4) :
                    name = majorRetailersV4[i] \/ startsWith(name, majorRetailersV4[i])
        filteredPlaces == SelectSeq(results, LAMBDA p : hasFoodType(p) \/ isRetailer(p))
    IN  IF Len(filteredPlaces) = 0
        THEN SelectSeq(results, LAMBDA p : hasFoodType(p))
        ELSE filteredPlaces

\* v4, lines 330-347: the item of a candidate, with its distance
placeWithDistanceV4(p, rLat, rLng) ==
    [ place_id |-> p.place_id,
      name |-> IF p.name = Undefined THEN <<>> ELSE p.name,
      address |-> IF p.vicinity = Undefined THEN <<>> ELSE p.vicinity,
      lat |-> p.lat,
      lng |-> p.lng,
      rating |-> p.rating,
      distance |-> calculateDistance(rLat, rLng, p.lat, p.lng) ]

RECURSIVE insertByDistance(_, _)
\* x goes before the first item that is farther
insertByDistance(x, sorted) ==
    IF sorted = <<>> THEN <<x>>
    ELSE IF x.distance - Head(sorted).distance < 0 THEN <<x>> \o sorted
    ELSE <<Head(sorted)>> \o insertByDistance(x, Tail(sorted))

RECURSIVE sortByDistance(_)
\* v4, line 350: sort((a, b) => a.distance - b.distance), a stable sort
sortByDistance(items) ==
    IF items = <<>> THEN <<>>
    ELSE insertByDistance(items[Len(items)],
                          sortByDistance(SubSeq(items, 1, Len(items) - 1)))

\* v4, lines 330-360: map, sort, slice(0, 15), map
rankPlacesV4(filtered, rLat, rLng) ==
    LET withDistance == [i \in 1..Len(filtered) |->
                            placeWithDistanceV4(filtered[i], rLat, rLng)]
        sorted == sortByDistance(withDistance)
        top == SubSeq(sorted, 1, Min(Len(sorted), MAX_PLACES_V4))
    IN  [i \in 1..Len(top) |-> withoutDistance(top[i])]

(***************************************************************************)
(* Inputs of the place search                                              *)
(***************************************************************************)
\* Place queries.  The first two lie in one grid cell and differ in their raw
\* coordinates; the third is the first in grocery mode.
PlaceQueries ==
    { [lat |-> 12, lng |-> 0 - 18, radius |-> 100, groceryMode |-> "false"],
      [lat |-> 17, lng |-> 0 - 11, radius |-> 100, groceryMode |-> "false"],
      [lat |-> 12, lng |-> 0 - 18, radius |-> 100, groceryMode |-> "true"] }

NameCafe == <<"C", "o", "r", "n", "e", "r", " ", "C", "a", "f", "e">>
NameWalmart == <<"W", "a", "l", "m", "a", "r", "t", " ", "S", "u", "p", "e", "r", "c", "e", "n", "t", "e", "r">>
NameWalmartPharmacy == <<"W", "a", "l", "m", "a", "r", "t", " ", "P", "h", "a", "r", "m", "a", "c", "y">>
NameTarget == <<"T", "A", "R", "G", "E", "T">>
NameTargetOptical == <<"T", "a", "r", "g", "e", "t", " ", "O", "P", "T", "I", "C", "A", "L">>
NameBank == <<"F", "i", "r", "s", "t", " ", "B", "a", "n", "k">>
Street == <<"1", " ", "M", "a", "i", "n", " ", "S", "t">>

\* Candidates of a nearby-search response.  geometry tells whether the
\* candidate carries geometry.location; a candidate without rating carries
\* NullRating, as p.rating ?? null makes of it.
Cafe ==
    [ place_id |-> "cafe", name |-> NameCafe, types |-> {"cafe", "food"},
      vicinity |-> Street, lat |-> 13, lng |-> 0 - 16, rating |-> 45,
      geometry |-> TRUE ]
Walmart ==
    [ place_id |-> "walmart", name |-> NameWalmart, types |-> {"department_store"},
      vicinity |-> Street, lat |-> 18, lng |-> 0 - 12, rating |-> 40,
      geometry |-> TRUE ]
WalmartPharmacy ==
    [ place_id |-> "pharmacy", name |-> NameWalmartPharmacy,
      types |-> {"pharmacy", "store"}, vicinity |-> Street, lat |-> 18,
      lng |-> 0 - 12, rating |-> 30, geometry |-> TRUE ]
TargetOptical ==
    [ place_id |-> "optical", name |-> NameTargetOptical,
      types |-> {"department_store"}, vicinity |-> Street, lat |-> 14,
      lng |-> 0 - 17, rating |-> 35, geometry |-> TRUE ]
Bank ==
    [ place_id |-> "bank", name |-> NameBank, types |-> {"bank"},
      vicinity |-> Street, lat |-> 11, lng |-> 0 - 19, rating |-> 20,
      geometry |-> TRUE ]
Unnamed ==
    [ place_id |-> UndefinedId, name |-> Undefined, types |-> {"restaurant"},
      vicinity |-> Undefined, lat |-> 11, lng |-> 0 - 19, rating |-> NullRating,
      geometry |-> TRUE ]
Lost ==
    [ place_id |-> "lost", name |-> NameTarget, types |-> {"store"},
      vicinity |-> Street, lat |-> 0, lng |-> 0, rating |-> NullRating,
      geometry |-> FALSE ]

\* A full response: more candidates than any version returns, retailers among
\* them, at distances that repeat
CrowdIds ==
    << "c01", "c02", "c03", "c04", "c05", "c06", "c07", "c08", "c09",
       "c10", "c11", "c12", "c13", "c14", "c15", "c16", "c17" >>
CrowdRetailers == {"c05", "c12", "c17"}
NameAldi == <<"A", "L", "D", "I">>
NameDeli == <<"D", "e", "l", "i">>
Crowd ==
    [ i \in DOMAIN CrowdIds |->
        [ place_id |-> CrowdIds[i],
          name |-> IF CrowdIds[i] \in CrowdRetailers THEN NameAldi ELSE NameDeli,
          types |-> IF CrowdIds[i] \in CrowdRetailers
                    THEN {"department_store"} ELSE {"restaurant"},
          vicinity |-> <<"1", "a">>,
          lat |-> 10 + ((i * 7) % 5),
          lng |-> 0 - 20 + ((i * 3) % 4),
          rating |-> NullRating,
          geometry |-> TRUE ] ]

\* response.data.results of a nearby search
SearchResults ==
    { <<>>, <<Bank>>, <<Cafe, Walmart>>, <<WalmartPharmacy, Unnamed>>, <<Lost>>,
      <<TargetOptical, WalmartPharmacy, Cafe>> }

\* What a nearby search can come to.  "ok": a body with results; "noResults":
\* a body without the results property; "noBody": a response without a body;
\* "non2xx"; "timeout".
SearchOutcomes ==
    [kind : {"ok"}, results : SearchResults]
      \cup [kind : {"noResults", "noBody", "non2xx", "timeout"}, results : {<<>>}]

\* What a nearby search can come to in the spec of all versions: the full
\* response is among the bodies, the failures are a non-2xx status and a
\* timeout
VersionOutcomes ==
    [kind : {"ok"}, results : {<<>>, <<Bank>>, <<Cafe, Walmart>>, <<Lost>>, Crowd}]
      \cup [kind : {"non2xx", "timeout"}, results : {<<>>}]

\* How the geocoder answers the probes of one fallback: every probe finds an
\* address, none does, only the probe of the query point does, or a probe
\* fails (non-2xx, timeout).
GeoWorlds == {"allHit", "noneHit", "centreOnly", "failFirst", "failLast"}
geoOutcome(world, i) ==
    CASE world = "allHit" -> "hit"
      [] world = "noneHit" -> "empty"
      [] world = "centreOnly" -> IF i = 1 THEN "hit" ELSE "empty"
      [] world = "failFirst" -> IF i = 1 THEN "fail" ELSE "hit"
      [] OTHER -> IF i = Len(offsets) THEN "fail" ELSE "hit"
\* body.results[0].formatted_address: the geocoder names the probed point
GeoAddress(pLat, pLng) ==
    <<"A">> \o IntDigits(pLat + 500) \o <<",">> \o IntDigits(pLng + 500)

\* lines 93-95 of getNearbyPlaces
PlaceCacheKey(q) ==
    makePlacesCacheKey(roundCoord(q.lat), roundCoord(q.lng), q.radius, q.groceryMode)

\* Queries of the spec of all versions: the arguments any version reads
VersionQueries ==
    { [lat |-> 12, lng |-> 0 - 18, radius |-> 100, type |-> "restaurant",
       groceryMode |-> "false"],
      [lat |-> 17, lng |-> 0 - 11, radius |-> 1000, type |-> "cafe",
       groceryMode |-> "true"] }
\* the cache key of a query in a version (lines 49-51 and 214-216 of
\* src/places.js, 93-95 of part_003)
VersionCacheKey(version, q) ==
    CASE version = "v1" ->
            makePlacesCacheKeyV1(roundCoord(q.lat), roundCoord(q.lng), q.radius, q.type)
      [] version = "v4" ->
            makePlacesCacheKeyV4(roundCoord(q.lat), roundCoord(q.lng), q.radius)
      [] OTHER -> PlaceCacheKey(q)
\* the keys of the queries, computed once
PlaceKeyTable ==
    [version \in Versions |->
        [q \in (IF version = "v5" THEN PlaceQueries ELSE {}) \cup VersionQueries |->
            VersionCacheKey(version, q)]]
VersionKeys(version) == {VersionCacheKey(version, q) : q \in VersionQueries}
PlaceKeys ==
    {PlaceCacheKey(q) : q \in PlaceQueries} \cup UNION {VersionKeys(ver) : ver \in Versions}

(***************************************************************************)
(* State                                                                   *)
(***************************************************************************)
VARIABLES
    cache,         \* cache key -> entry: [value, ttl], NoEntry when absent
    lock,          \* lock key -> the seconds the entry was set to live, 0 when absent
    caller,        \* request -> its position and locals
    lockOwner,     \* history: lock key -> the request whose SET NX made the entry
    written,       \* history: cache key -> what the writer of the entry returns
    fetched,       \* history: cache key -> upstream has been called for it
    overran,       \* history: a lock entry has expired under its holder
    visit,         \* place request -> its position and locals
    searched,      \* history: place key -> a nearby search has been sent for it
    stored,        \* history: place key -> the list written to the entry
    calc           \* the arguments and the value of a function applied alone

vars == <<cache, lock, caller, lockOwner, written, fetched, overran,
          visit, searched, stored, calc>>
\* what a step of a directions request leaves alone, and what a step of a
\* place request does
placeVars == <<visit, searched, stored, calc>>
dirVars == <<lock, caller, lockOwner, written, fetched, overran, calc>>

\* no function is being applied alone
NoCalc == [phase |-> "none"]

NoQuery == [originLat |-> 0, originLng |-> 0, destLat |-> 0, destLng |-> 0]
NoResult == [distance_miles |-> NaN, source |-> "none"]

\* a request before the call
IdleCaller ==
    [ pc |-> "idle",            \* the await the request is suspended at
      query |-> NoQuery,        \* the arguments of getDirectionsDistance
      lockAcquired |-> FALSE,   \* const lockAcquired
      waited |-> 0,             \* Date.now() - start, in ticks
      val |-> NaN,              \* miles (try block) or fallback (catch block)
      result |-> NoResult,      \* the value the call resolved to
      polls |-> 0,              \* history: cache reads sent from the wait loop
      exhausted |-> FALSE,      \* history: left the wait loop by its bound
      storeErr |-> FALSE,       \* history: a store command of this request rejected
      sawLock |-> FALSE,        \* history: acquireLock was truthy over a live entry
      hit |-> NoResult,         \* history: what the writer of the entry read returns
      second |-> FALSE,         \* history: it called upstream after another had
      missedLive |-> FALSE,     \* history: a cache read of it passed over a live entry
      freed |-> None,           \* history: the other request whose lock entry its
                                \* redis.del removed
      waiters |-> {},           \* history: the requests in the wait loop when
                                \* its process died
      laters |-> {},            \* history: the requests not yet made then
      outcome |-> "none" ]      \* history: what its directions request came to

NoPlaceQuery == [lat |-> 0, lng |-> 0, radius |-> 0, groceryMode |-> "false"]
NoStored == [places |-> <<>>, via |-> "none"]

\* a place request before the call
IdleVisit ==
    [ pc |-> "idle",            \* the await the request is suspended at
      version |-> "v5",         \* the version of getNearbyPlaces that serves it
      query |-> NoPlaceQuery,   \* the arguments of getNearbyPlaces
      places |-> <<>>,          \* let places
      geoWorld |-> "none",      \* how the geocoder answers this request
      geoIdx |-> 0,             \* the offset whose probe is awaited
      results |-> <<>>,         \* results of fetchGeocodingFallback
      result |-> <<>>,          \* the list the call resolved to
      via |-> "none",           \* history: the path that made places
      radii |-> <<>>,           \* history: the radii of the searches sent
      got |-> <<>>,             \* history: what each settled search gave, kept
                                \* until the fallback starts or places is written
      pool |-> <<>>,            \* history: the candidates places was made from
      probes |-> 0,             \* history: reverse-geocode calls sent
      second |-> FALSE,         \* history: it searched after another had
      storeErr |-> FALSE,       \* history: a store command of it rejected
      upErr |-> FALSE,          \* history: an upstream failure rejected it
      missedLive |-> FALSE,     \* history: its cache read passed over a live entry
      hit |-> NoStored ]        \* history: what was written to the entry read

\* the store is connected and empty, no request has arrived
InitOfVersion(S, V, version) ==
    /\ calc = NoCalc
    /\ cache = [k \in CacheKeys \cup PlaceKeys |-> NoEntry]
    /\ visit = [v \in V |-> [IdleVisit EXCEPT !.version = version]]
    /\ searched = [k \in PlaceKeys |-> FALSE]
    /\ stored = [k \in PlaceKeys |-> NoStored]
    /\ lock = [k \in LockKeys |-> 0]
    /\ caller = [c \in S |-> IdleCaller]
    /\ lockOwner = [k \in LockKeys |-> None]
    /\ written = [k \in CacheKeys |-> NoResult]
    /\ fetched = [k \in CacheKeys |-> FALSE]
    /\ overran = FALSE

\* the same with the current version of getNearbyPlaces
InitOf(S, V) == InitOfVersion(S, V, "v5")

KeyOf(c) == DirKeys[caller[c].query].cache
LockOf(c) == DirKeys[caller[c].query].lock

ActiveVisitPcs == {"get", "search1", "search2", "fallback", "geo", "set"}
StorePcs == {"get", "acquire", "poll", "setOk", "delOk", "setFb", "delFb"}
FetchPcs == {"fetch", "setOk", "delOk", "setFb", "delFb"}
ActivePcs == StorePcs \cup {"sleep", "fetch"}
\* between a truthy acquireLock and the end of the call
Holding(c) == caller[c].pc \in FetchPcs /\ caller[c].lockAcquired

\* the straight-line fallback of the catch block (line 156)
Fallback(q) ==
    straightLineMiles(roundCoord(q.originLat), roundCoord(q.originLng),
                      roundCoord(q.destLat), roundCoord(q.destLng))

\* what FetchReturn records of an outcome: a distance, a body without the
\* distance value, or a failure of the call
OutcomeClass(kind) ==
    CASE kind = "routes" -> "distance"
      [] kind = "noValue" -> "noValue"
      [] OTHER -> "failed"

\* a store command rejects outside the try block: the call rejects with it
Reject(c) ==
    caller' = [caller EXCEPT ![c].pc = "rejected", ![c].storeErr = TRUE,
                 ![c].val = NaN, ![c].waited = 0, ![c].polls = 0]

\* the call resolves to r
Resolve(c, r) ==
    caller' = [caller EXCEPT ![c].pc = "done", ![c].result = r,
                 ![c].val = NaN, ![c].waited = 0, ![c].polls = 0]

\* whether redis.del(lockKey) of request c removes the entry that request
\* owner made (lines 141 and 159): the command names the key only
deletesOwnOnly(c, owner) == owner = c
deletes(c, owner) == TRUE

\* redis.del(lockKey) settles and the call resolves to r
Release(c, r) ==
    LET k == LockOf(c)
        owner == lockOwner[k]
        gone == lock[k] > 0 /\ deletes(c, owner)
    IN  /\ lock' = IF gone THEN [lock EXCEPT ![k] = 0] ELSE lock
        /\ lockOwner' = IF gone THEN [lockOwner EXCEPT ![k] = None] ELSE lockOwner
        /\ caller' = [caller EXCEPT ![c].pc = "done", ![c].result = r,
                        ![c].val = NaN, ![c].waited = 0, ![c].polls = 0,
                        ![c].freed = IF gone /\ owner # c THEN owner ELSE None]

(***************************************************************************)
(* getDirectionsDistance, one action per await                             *)
(***************************************************************************)
\* the call, up to redis.get of line 82
Call(c, q) ==
    /\ caller[c].pc = "idle"
    /\ caller' = [caller EXCEPT ![c].pc = "get", ![c].query = q]
    /\ UNCHANGED <<cache, lock, lockOwner, written, fetched, overran>>
    /\ UNCHANGED placeVars

\* redis.get resolves (lines 82-91), acquireLock is sent
CacheGet(c, up) ==
    /\ caller[c].pc = "get"
    /\ IF ~up THEN Reject(c)
       ELSE LET cached == redisGet(cache, KeyOf(c))
            IN  IF Truthy(cached)
                THEN caller' = [caller EXCEPT ![c].pc = "done",
                                  ![c].result = [distance_miles |-> StringToNumber(cached),
                                                 source |-> "cache"],
                                  ![c].hit = written[KeyOf(c)]]
                ELSE caller' = [caller EXCEPT ![c].pc = "acquire",
                                  ![c].missedLive = (cache[KeyOf(c)] # NoEntry)]
    /\ UNCHANGED <<cache, lock, lockOwner, written, fetched, overran>>
    /\ UNCHANGED placeVars

\* acquireLock resolves (lines 94-101, 115-122): the holder sends the
\* directions request, a loser starts the wait loop with its first sleep
AcquireLock(c, up) ==
    /\ caller[c].pc = "acquire"
    /\ IF ~up
       THEN Reject(c) /\ UNCHANGED <<lock, lockOwner, fetched>>
       ELSE IF acquireLock(lock, LockOf(c))
       THEN /\ lock' = [lock EXCEPT ![LockOf(c)] = lockTtl]
            /\ lockOwner' = [lockOwner EXCEPT ![LockOf(c)] = c]
            /\ caller' = [caller EXCEPT ![c].pc = "fetch",
                            ![c].lockAcquired = TRUE,
                            ![c].sawLock = (lock[LockOf(c)] > 0),
                            ![c].second = fetched[KeyOf(c)]]
            /\ fetched' = [fetched EXCEPT ![KeyOf(c)] = TRUE]
       ELSE /\ IF waitLoopContinues(0)
               THEN /\ caller' = [caller EXCEPT ![c].pc = "sleep", ![c].waited = 0]
                    /\ UNCHANGED fetched
               ELSE /\ caller' = [caller EXCEPT ![c].pc = afterWaitLoop, ![c].waited = 0,
                                    ![c].exhausted = TRUE,
                                    ![c].second = fetched[KeyOf(c)]]
                    /\ fetched' = [fetched EXCEPT ![KeyOf(c)] = TRUE]
            /\ UNCHANGED <<lock, lockOwner>>
    /\ UNCHANGED <<cache, written, overran>>
    /\ UNCHANGED placeVars

\* sleep(LOCK_WAIT_MS) resolves (line 101) after LOCK_WAIT_MS and at most
\* MaxLag more, redis.get of line 103 is sent
SleepDone(c, lag) ==
    /\ caller[c].pc = "sleep"
    /\ caller' = [caller EXCEPT ![c].pc = "poll",
                    ![c].waited = @ + SleepTicks + lag,
                    ![c].polls = @ + 1]
    /\ UNCHANGED <<cache, lock, lockOwner, written, fetched, overran>>
    /\ UNCHANGED placeVars

\* redis.get of the wait loop resolves (lines 103-113, 118-122)
Poll(c, up) ==
    /\ caller[c].pc = "poll"
    /\ IF ~up THEN Reject(c) /\ UNCHANGED fetched
       ELSE LET retry == redisGet(cache, KeyOf(c))
            IN  IF Truthy(retry)
                THEN /\ caller' = [caller EXCEPT ![c].pc = "done",
                                     ![c].result = [distance_miles |-> StringToNumber(retry),
                                                    source |-> "cache"],
                                     ![c].hit = written[KeyOf(c)]]
                     /\ UNCHANGED fetched
                ELSE IF waitLoopContinues(caller[c].waited)
                THEN /\ caller' = [caller EXCEPT ![c].pc = "sleep",
                                     ![c].missedLive = (cache[KeyOf(c)] # NoEntry)]
                     /\ UNCHANGED fetched
                ELSE /\ caller' = [caller EXCEPT ![c].pc = afterWaitLoop,
                                     ![c].exhausted = TRUE,
                                     ![c].missedLive = (cache[KeyOf(c)] # NoEntry),
                                     ![c].second = fetched[KeyOf(c)]]
                     /\ fetched' = [fetched EXCEPT ![KeyOf(c)] = TRUE]
    /\ UNCHANGED <<cache, lock, lockOwner, written, overran>>
    /\ UNCHANGED placeVars

\* axios.get settles (lines 122-138, 151-156): a distance goes to the write
\* of line 140, every throw inside the try block to the catch block
FetchReturn(c, o) ==
    /\ caller[c].pc = "fetch"
    /\ caller' = [caller EXCEPT
          ![c].outcome = OutcomeClass(o.kind),
          ![c].waited = 0,
          ![c].polls = 0,
          ![c].pc = IF o.kind \in {"routes", "noValue"} THEN "setOk" ELSE "setFb",
          ![c].val = CASE o.kind = "routes" -> o.meters * NANO_MILES_PER_METER
                       [] o.kind = "noValue" -> NaN
                       [] OTHER -> Fallback(caller[c].query)]
    /\ UNCHANGED <<cache, lock, lockOwner, written, fetched, overran>>
    /\ UNCHANGED placeVars

\* redis.setEx of line 140 settles; a rejection is thrown inside the try
\* block and lands in the catch block
SetOk(c, up) ==
    /\ caller[c].pc = "setOk"
    /\ IF ~up
       THEN /\ caller' = [caller EXCEPT ![c].pc = "setFb",
                            ![c].storeErr = TRUE,
                            ![c].val = Fallback(caller[c].query)]
            /\ UNCHANGED <<cache, written>>
       ELSE /\ cache' = redisSetEx(cache, KeyOf(c), successTtl,
                                   NumberToString(caller[c].val))
            /\ written' = [written EXCEPT ![KeyOf(c)] =
                              [distance_miles |-> caller[c].val, source |-> "google"]]
            /\ caller' = [caller EXCEPT ![c].pc = "delOk"]
    /\ UNCHANGED <<lock, lockOwner, fetched, overran>>
    /\ UNCHANGED placeVars

\* redis.del of line 141 settles (lines 141-148); a rejection lands in the
\* catch block
DelOk(c, up) ==
    /\ caller[c].pc = "delOk"
    /\ IF ~up
       THEN /\ caller' = [caller EXCEPT ![c].pc = "setFb",
                            ![c].storeErr = TRUE,
                            ![c].val = Fallback(caller[c].query)]
            /\ UNCHANGED <<lock, lockOwner>>
       ELSE Release(c, [distance_miles |-> caller[c].val, source |-> "google"])
    /\ UNCHANGED <<cache, written, fetched, overran>>
    /\ UNCHANGED placeVars

\* redis.setEx of line 158 settles
SetFb(c, up) ==
    /\ caller[c].pc = "setFb"
    /\ IF ~up
       THEN Reject(c) /\ UNCHANGED <<cache, written>>
       ELSE /\ cache' = redisSetEx(cache, KeyOf(c), fallbackTtl,
                                   NumberToString(caller[c].val))
            /\ written' = [written EXCEPT ![KeyOf(c)] =
                              [distance_miles |-> caller[c].val, source |-> "fallback"]]
            /\ caller' = [caller EXCEPT ![c].pc = "delFb"]
    /\ UNCHANGED <<lock, lockOwner, fetched, overran>>
    /\ UNCHANGED placeVars

\* redis.del of line 159 settles (lines 159-166)
DelFb(c, up) ==
    /\ caller[c].pc = "delFb"
    /\ IF ~up
       THEN Reject(c) /\ UNCHANGED <<lock, lockOwner>>
       ELSE Release(c, [distance_miles |-> caller[c].val, source |-> "fallback"])
    /\ UNCHANGED <<cache, written, fetched, overran>>
    /\ UNCHANGED placeVars

(***************************************************************************)
(* The environment: expiry of store entries                                *)
(***************************************************************************)
\* the lock entry's LOCK_TTL_SECONDS have passed: redis drops it
LockExpire(k) ==
    /\ lock[k] > 0
    /\ lock' = [lock EXCEPT ![k] = 0]
    /\ lockOwner' = [lockOwner EXCEPT ![k] = None]
    /\ overran' = (overran \/ \E c \in DOMAIN caller :
                                 Holding(c) /\ LockOf(c) = k /\ lockOwner[k] = c)
    /\ UNCHANGED <<cache, caller, written, fetched>>
    /\ UNCHANGED placeVars

\* the cache entry's CACHE_TTL_SECONDS have passed: redis drops it.  No
\* request lasts that long, so none is in flight.
CacheExpire(k) ==
    /\ cache[k] # NoEntry
    /\ \A c \in DOMAIN caller : caller[c].pc \notin ActivePcs
    /\ cache' = [cache EXCEPT ![k] = NoEntry]
    /\ written' = [written EXCEPT ![k] = NoResult]
    /\ fetched' = [fetched EXCEPT ![k] = FALSE]
    /\ UNCHANGED <<lock, caller, lockOwner, overran>>
    /\ UNCHANGED placeVars

\* the steps of one request; up tells whether the store command that
\* settles in the step was carried out (TRUE) or rejected, Ups the cases met
RequestOf(c, Ups, Outcomes) ==
    \/ \E up \in Ups : CacheGet(c, up)
    \/ \E up \in Ups : AcquireLock(c, up)
    \/ \E lag \in 0..MaxLag : SleepDone(c, lag)
    \/ \E up \in Ups : Poll(c, up)
    \/ \E o \in Outcomes : FetchReturn(c, o)
    \/ \E up \in Ups : SetOk(c, up)
    \/ \E up \in Ups : DelOk(c, up)
    \/ \E up \in Ups : SetFb(c, up)
    \/ \E up \in Ups : DelFb(c, up)
Request(c, Ups) == RequestOf(c, Ups, DirOutcomes)

Expire ==
    \/ \E k \in LockKeys : LockExpire(k)
    \/ \E k \in CacheKeys : CacheExpire(k)

\* NumCallers requests for any of the queries, over a store that may fail
Init == InitOf(Callers, {})
Next ==
    \/ \E c \in Callers, q \in DirQueries : Call(c, q)
    \/ \E c \in Callers : Request(c, BOOLEAN)
    \/ Expire
Spec == Init /\ [][Next]_vars

\* One more request, all for the same query, over a store that stays up
ContendedQuery == CHOOSE q \in DirQueries : Fallback(q) > 0
InitContend == InitOf(Contenders, {})
NextContend ==
    \/ \E c \in Contenders : Call(c, ContendedQuery)
    \/ \E c \in Contenders : Request(c, {TRUE})
    \/ Expire
SpecContend == InitContend /\ [][NextContend]_vars

(***************************************************************************)
(* A holder that dies                                                      *)
(***************************************************************************)
\* the process of request h dies while h, having acquired the lock, awaits
\* axios.get (line 122): neither redis.del (lines 141, 159) is ever sent
Crash(h) ==
    /\ caller[h].pc = "fetch"
    /\ caller[h].lockAcquired
    /\ caller' = [caller EXCEPT ![h].pc = "crashed",
                    ![h].waiters = {c \in DOMAIN caller \ {h} :
                                      /\ caller[c].pc \in {"sleep", "poll"}
                                      /\ LockOf(c) = LockOf(h)},
                    ![h].laters = {c \in DOMAIN caller : caller[c].pc = "idle"}]
    /\ UNCHANGED <<cache, lock, lockOwner, written, fetched, overran>>
    /\ UNCHANGED placeVars

\* Requests for one query over a store that stays up, each in a process of
\* its own that may die while it holds the lock: NumCallers requests race,
\* one more is made once the process of a holder has died
\* two points of one grid cell, a route of no length or no answer in time
HealQuery == CHOOSE q \in DirQueries : Fallback(q) = 0
HealOutcomes ==
    { [kind |-> "routes", meters |-> 0], [kind |-> "timeout", meters |-> 0] }
HealRequest(c) == RequestOf(c, {TRUE}, HealOutcomes)
InitHeal == InitOf(Contenders, {})
HealLock == DirKeys[HealQuery].lock
CallLater(c) ==
    /\ \E h \in Callers : caller[h].pc = "crashed"
    /\ Call(c, HealQuery)
NextHeal ==
    \/ \E c \in Callers : Call(c, HealQuery)
    \/ \E c \in Contenders \ Callers : CallLater(c)
    \/ \E c \in Contenders : HealRequest(c)
    \/ \E c \in Contenders : Crash(c)
    \/ Expire
\* the event loop runs the continuation of every settled promise, timers
\* fire, axios.get settles within its timeout (line 131), the store answers
\* every command and drops an entry when its EX has passed
FairHeal ==
    /\ \A c \in Contenders : WF_vars(HealRequest(c))
    /\ \A k \in LockKeys : WF_vars(LockExpire(k))
SpecHeal == InitHeal /\ [][NextHeal]_vars /\ FairHeal

(***************************************************************************)
(* getNearbyPlaces, one action per await                                   *)
(***************************************************************************)
PlaceKeyOf(v) == PlaceKeyTable[visit[v].version][visit[v].query]

\* a rejection of the call: by a store command (storeErr) or by a
\* reverse-geocode call (upErr)
RejectVisit(v, byStore) ==
    visit' = [visit EXCEPT ![v].pc = "rejected",
                ![v].storeErr = byStore, ![v].upErr = ~byStore,
                ![v].places = <<>>, ![v].results = <<>>, ![v].got = <<>>,
                ![v].pool = <<>>,
                ![v].geoWorld = "none", ![v].geoIdx = 0]

\* the call, up to redis.get of line 100
Visit(v, q) ==
    /\ visit[v].pc = "idle"
    /\ visit' = [visit EXCEPT ![v].pc = "get", ![v].query = q]
    /\ UNCHANGED <<cache, searched, stored, dirVars>>

\* the radius of the first search: 100 in part_003 (line 188), the radius
\* asked for in src/places.js (lines 76 and 241)
firstRadius(version, q) == IF version = "v5" THEN FIRST_RADIUS ELSE q.radius
\* the radius of the second search: 200 in part_003 (line 215),
\* Math.max(radius, 200) in v1 (line 95), 500 in v4 (line 260)
secondRadius(version, q) ==
    CASE version = "v1" -> IF q.radius > RADIUS_FLOOR_V1 THEN q.radius ELSE RADIUS_FLOOR_V1
      [] version = "v4" -> SECOND_RADIUS_V4
      [] OTHER -> SECOND_RADIUS

\* redis.get resolves (lines 100-193): a hit returns the parsed entry, a miss
\* sends the first nearby search
PlacesCacheGet(v, up) ==
    /\ visit[v].pc = "get"
    /\ IF ~up THEN RejectVisit(v, TRUE) /\ UNCHANGED searched
       ELSE LET cached == redisGet(cache, PlaceKeyOf(v))
            IN  IF Truthy(cached)
                THEN /\ visit' = [visit EXCEPT ![v].pc = "done",
                                    ![v].result = JSONparse(cached),
                                    ![v].via = "cache",
                                    ![v].hit = stored[PlaceKeyOf(v)]]
                     /\ UNCHANGED searched
                ELSE /\ visit' = [visit EXCEPT ![v].pc = "search1",
                                    ![v].radii = <<firstRadius(visit[v].version,
                                                               visit[v].query)>>,
                                    ![v].missedLive = (cache[PlaceKeyOf(v)] # NoEntry),
                                    ![v].second = searched[PlaceKeyOf(v)]]
                     /\ searched' = [searched EXCEPT ![PlaceKeyOf(v)] = TRUE]
    /\ UNCHANGED <<cache, stored, dirVars>>

\* the nearby search failed: an error status or a timeout
upstreamFailed(o) == o.kind \in {"non2xx", "timeout"}
searchThrowsOnTimeout(o) == o.kind = "timeout"
\* whether the awaited search, or the reading of its response, throws
searchThrows(o) == o.kind \in {"noBody", "non2xx", "timeout"}
\* filteredPlaces after a response (lines 199-204, 225-228)
filteredOf(o, groceryMode) ==
    IF o.kind = "ok" /\ Len(o.results) > 0
    THEN filterPlaces(o.results, groceryMode)
    ELSE <<>>
\* p.geometry.location of a candidate without geometry throws (line 237)
rankThrows(filtered) == \E i \in 1..Len(filtered) : ~filtered[i].geometry

\* response.data.results when it is a non-empty array, else the empty list
rawOf(o) == IF o.kind = "ok" THEN o.results ELSE <<>>
\* the candidates the items are made of: filteredPlaces of part_003 and of
\* v4, the first ten of resultsToUse in v1
candidatesOf(version, o, q) ==
    CASE version = "v1" ->
            LET resultsToUse == resultsToUseV1(rawOf(o))
            IN  SubSeq(resultsToUse, 1, Min(Len(resultsToUse), MAX_PLACES))
      [] version = "v4" -> filterPlacesV4(rawOf(o))
      [] OTHER -> filteredOf(o, q.groceryMode)
\* all the candidates the version chooses from: filteredPlaces of part_003
\* and of v4, resultsToUse in v1
poolOf(version, o, candidates) ==
    IF version = "v1" THEN resultsToUseV1(rawOf(o)) ELSE candidates
\* places of the candidates
placesOf(version, candidates, q) ==
    CASE version = "v1" -> rankPlacesV1(candidates)
      [] version = "v4" -> rankPlacesV4(candidates, roundCoord(q.lat), roundCoord(q.lng))
      [] OTHER -> rankPlaces(candidates, roundCoord(q.lat), roundCoord(q.lng))

\* a response with a deny-listed candidate that has a food type and one that
\* bears an allow-listed retailer's name
deniedRelevant(results) ==
    /\ \E i \in 1..Len(results) : isBlacklisted(results[i]) /\ hasFoodType(results[i])
    /\ \E i \in 1..Len(results) : isBlacklisted(results[i]) /\ isMajorRetailer(results[i])
\* a response of food places only, none of them an allow-listed retailer
plainFood(results) ==
    /\ Len(results) > 0
    /\ \A i \in 1..Len(results) : hasFoodType(results[i]) /\ ~isMajorRetailer(results[i])

\* the condition under which the first response is followed by a second
\* search: an empty filteredPlaces in part_003 (line 207), no results in v1
\* (line 87), no results and a radius under 1000 in v4 (line 252)
searchesAgainAlways(version, o, candidates, q) == TRUE
searchesAgain(version, o, candidates, q) ==
    CASE version = "v1" -> Len(rawOf(o)) = 0
      [] version = "v4" -> Len(rawOf(o)) = 0 /\ q.radius < RETRY_BELOW_V4
      [] OTHER -> Len(candidates) = 0

\* the try block from a response on (lines 195-281; 87-127 and 252-361 of
\* src/places.js): pc and places after it, where again tells whether a
\* further search may follow.  got is the history of the search: whether it
\* gave a candidate the version keeps, whether it failed, whether it gave
\* plain food places only, and, when places is made of it, whether it held
\* deny-listed candidates that were relevant otherwise.
afterSearch(v, o, again) ==
    LET q == visit[v].query
        version == visit[v].version
        candidates == candidatesOf(version, o, q)
        got == [ kept |-> Len(candidates) > 0, failed |-> upstreamFailed(o),
                 plain |-> plainFood(rawOf(o)), denied |-> FALSE ]
        none == [places |-> <<>>, got |-> got, pool |-> <<>>]
    IN  IF searchThrows(o) THEN [pc |-> "fallback"] @@ none
        ELSE IF again /\ searchesAgain(version, o, candidates, q)
             THEN [pc |-> "search2"] @@ none
        ELSE IF candidates = <<>> THEN [pc |-> "fallback"] @@ none
        ELSE IF rankThrows(candidates) THEN [pc |-> "fallback"] @@ none
        ELSE [pc |-> "set", places |-> placesOf(version, candidates, q),
              got |-> [got EXCEPT !.denied = deniedRelevant(rawOf(o))],
              pool |-> poolOf(version, o, candidates)]

\* the 100 m search settles (lines 183-220, 231-286)
Search1Return(v, o) ==
    /\ visit[v].pc = "search1"
    /\ LET next == afterSearch(v, o, TRUE)
       IN  visit' = [visit EXCEPT
              ![v].pc = next.pc,
              ![v].places = next.places,
              ![v].via = IF next.pc = "set" THEN "primary" ELSE @,
              ![v].got = Append(@, next.got),
              ![v].pool = next.pool,
              ![v].radii = IF next.pc = "search2"
                           THEN Append(@, secondRadius(visit[v].version, visit[v].query))
                           ELSE @]
    /\ UNCHANGED <<cache, searched, stored, dirVars>>

\* the 200 m search settles (lines 210-286)
Search2Return(v, o) ==
    /\ visit[v].pc = "search2"
    /\ LET next == afterSearch(v, o, FALSE)
       IN  visit' = [visit EXCEPT
              ![v].pc = next.pc,
              ![v].places = next.places,
              ![v].got = Append(@, next.got),
              ![v].pool = next.pool,
              ![v].via = IF next.pc = "set" THEN "primary" ELSE @]
    /\ UNCHANGED <<cache, searched, stored, dirVars>>

\* fetchGeocodingFallback is called (line 286) and sends its first probe
\* (lines 64-81); world is how the geocoder will answer
GeocodeStart(v, world) ==
    /\ visit[v].pc = "fallback"
    /\ visit' = [visit EXCEPT ![v].pc = "geo", ![v].geoWorld = world,
                   ![v].geoIdx = 1, ![v].results = <<>>, ![v].probes = 1, ![v].got = <<>>]
    /\ UNCHANGED <<cache, searched, stored, dirVars>>

\* results.length >= 10 (line 88): the loop is left
enoughResultsAtOne(results) == Len(results) >= 1
enoughResults(results) == Len(results) >= MAX_PLACES

\* a probe settles (lines 81-89, 286-298): a failure rejects the call; after
\* the last probe, or with MAX_PLACES results, the items are made and the
\* cache write is sent
GeocodeReturn(v) ==
    /\ visit[v].pc = "geo"
    /\ LET q == visit[v].query
           i == visit[v].geoIdx
           o == geoOutcome(visit[v].geoWorld, i)
           results == IF o = "hit"
                      THEN Append(visit[v].results,
                                  GeoAddress(q.lat + offsets[i][1], q.lng + offsets[i][2]))
                      ELSE visit[v].results
       IN  IF o = "fail" THEN RejectVisit(v, FALSE)
           ELSE IF enoughResults(results) \/ i = Len(offsets)
           THEN visit' = [visit EXCEPT
                   ![v].pc = "set",
                   ![v].places = [j \in 1..Len(results) |->
                                     fallbackItem(results[j], q.lat, q.lng)],
                   ![v].via = "fallback",
                   ![v].results = <<>>, ![v].geoWorld = "none", ![v].geoIdx = 0]
           ELSE visit' = [visit EXCEPT ![v].geoIdx = i + 1, ![v].results = results,
                            ![v].probes = @ + 1]
    /\ UNCHANGED <<cache, searched, stored, dirVars>>

\* redis.setEx of line 298 settles: the call returns places, or rejects
PlacesSetEx(v, up) ==
    /\ visit[v].pc = "set"
    /\ IF ~up
       THEN RejectVisit(v, TRUE) /\ UNCHANGED <<cache, stored>>
       ELSE /\ cache' = redisSetEx(cache, PlaceKeyOf(v), placesTtl(visit[v].version),
                                   JSONstringify(visit[v].places))
            /\ stored' = [stored EXCEPT ![PlaceKeyOf(v)] =
                             [places |-> visit[v].places, via |-> visit[v].via]]
            /\ visit' = [visit EXCEPT ![v].pc = "done", ![v].got = <<>>,
                           ![v].result = visit[v].places, ![v].places = <<>>]
    /\ UNCHANGED <<searched, dirVars>>

\* the place entry's PLACES_CACHE_TTL_SECONDS have passed: redis drops it.
\* No request lasts that long, so none is in flight.
PlacesCacheExpire(k) ==
    /\ cache[k] # NoEntry
    /\ \A v \in DOMAIN visit : visit[v].pc \notin ActiveVisitPcs
    /\ cache' = [cache EXCEPT ![k] = NoEntry]
    /\ stored' = [stored EXCEPT ![k] = NoStored]
    /\ searched' = [searched EXCEPT ![k] = FALSE]
    /\ UNCHANGED <<visit, dirVars>>

\* the steps of one place request, the searches answering with one of
\* Outcomes and the geocoder as one of Worlds
PlaceRequestOf(v, Outcomes, Worlds) ==
    \/ \E up \in BOOLEAN : PlacesCacheGet(v, up)
    \/ \E o \in Outcomes : Search1Return(v, o)
    \/ \E o \in Outcomes : Search2Return(v, o)
    \/ \E world \in Worlds : GeocodeStart(v, world)
    \/ GeocodeReturn(v)
    \/ \E up \in BOOLEAN : PlacesSetEx(v, up)
PlaceRequest(v) == PlaceRequestOf(v, SearchOutcomes, GeoWorlds)

\* NumCallers place requests for any of the queries, over a store that may fail
Visitors == 1..NumCallers
InitPlaces == InitOf({}, Visitors)
NextPlaces ==
    \/ \E v \in Visitors, q \in PlaceQueries : Visit(v, q)
    \/ \E v \in Visitors : PlaceRequest(v)
    \/ \E k \in PlaceKeys : PlacesCacheExpire(k)
SpecPlaces == InitPlaces /\ [][NextPlaces]_vars

\* Two runs of getNearbyPlaces under one upstream behaviour: the nearby
\* searches and the geocoder answer both requests alike, as calc tells, and
\* the store stays up.  The requests are made from two points of one grid
\* cell with one radius and mode.
TwinQueries ==
    << [lat |-> 12, lng |-> 0 - 18, radius |-> 100, groceryMode |-> "false"],
       [lat |-> 17, lng |-> 0 - 11, radius |-> 100, groceryMode |-> "false"] >>
TwinOutcomes ==
    [kind : {"ok"}, results : {<<>>, <<Bank>>, <<Cafe, Walmart>>}]
      \cup [kind : {"timeout"}, results : {<<>>}]
TwinWorlds == {"allHit", "noneHit", "centreOnly"}
Twins == DOMAIN TwinQueries
InitTwin ==
    /\ \E first \in TwinOutcomes, second \in TwinOutcomes, world \in TwinWorlds :
          calc = [phase |-> "upstream", first |-> first, second |-> second,
                  world |-> world]
    /\ cache = [k \in CacheKeys \cup PlaceKeys |-> NoEntry]
    /\ visit = [v \in Twins |-> IdleVisit]
    /\ searched = [k \in PlaceKeys |-> FALSE]
    /\ stored = [k \in PlaceKeys |-> NoStored]
    /\ lock = [k \in LockKeys |-> 0]
    /\ caller = <<>>
    /\ lockOwner = [k \in LockKeys |-> None]
    /\ written = [k \in CacheKeys |-> NoResult]
    /\ fetched = [k \in CacheKeys |-> FALSE]
    /\ overran = FALSE
TwinRequest(v) ==
    \/ PlacesCacheGet(v, TRUE)
    \/ Search1Return(v, calc.first)
    \/ Search2Return(v, calc.second)
    \/ GeocodeStart(v, calc.world)
    \/ GeocodeReturn(v)
    \/ PlacesSetEx(v, TRUE)
NextTwin ==
    \/ \E v \in Twins : Visit(v, TwinQueries[v])
    \/ \E v \in Twins : TwinRequest(v)
    \/ \E k \in PlaceKeys : PlacesCacheExpire(k)
SpecTwin == InitTwin /\ [][NextTwin]_vars

\* a place entry of a deployment of any version expires.  The 10 seconds of
\* v4 can pass while a request is in flight.
VersionCacheExpire(k) ==
    /\ cache[k] # NoEntry
    /\ \/ k \in VersionKeys("v4")
       \/ \A v \in DOMAIN visit : visit[v].pc \notin ActiveVisitPcs
    /\ cache' = [cache EXCEPT ![k] = NoEntry]
    /\ stored' = [stored EXCEPT ![k] = NoStored]
    /\ searched' = [searched EXCEPT ![k] = FALSE]
    /\ UNCHANGED <<visit, dirVars>>

\* how the geocoder answers in the spec of all versions
VersionWorlds == {"allHit", "centreOnly", "failLast"}

\* NumCallers place requests to a deployment of one of the three versions of
\* getNearbyPlaces
InitVersions == \E version \in Versions : InitOfVersion({}, Visitors, version)
NextVersions ==
    \/ \E v \in Visitors, q \in VersionQueries : Visit(v, q)
    \/ \E v \in Visitors : PlaceRequestOf(v, VersionOutcomes, VersionWorlds)
    \/ \E k \in PlaceKeys : VersionCacheExpire(k)
SpecVersions == InitVersions /\ [][NextVersions]_vars

(***************************************************************************)
(* roundCoord and the key makers, applied to two raw coordinates           *)
(***************************************************************************)
\* the keys of a request for a point of normalized latitude rLat, all other
\* arguments fixed
keysOf(rLat) ==
    [ places |-> makePlacesCacheKey(rLat, roundCoord(0 - 18), FIRST_RADIUS, "false"),
      directions |-> makeCacheKey(rLat, roundCoord(0 - 18), roundCoord(25),
                                  roundCoord(0 - 31)) ]

\* no request has arrived and none will
NoRequests ==
    /\ cache = [k \in CacheKeys \cup PlaceKeys |-> NoEntry]
    /\ visit = <<>>
    /\ searched = [k \in PlaceKeys |-> FALSE]
    /\ stored = [k \in PlaceKeys |-> NoStored]
    /\ lock = [k \in LockKeys |-> 0]
    /\ caller = <<>>
    /\ lockOwner = [k \in LockKeys |-> None]
    /\ written = [k \in CacheKeys |-> NoResult]
    /\ fetched = [k \in CacheKeys |-> FALSE]
    /\ overran = FALSE

\* two raw coordinates arrive
InitCoords ==
    /\ \E a \in RawCoords, b \in RawCoords : calc = [phase |-> "raw", a |-> a, b |-> b]
    /\ NoRequests

\* both are normalized and the keys are made (lines 69-75 of
\* src/directions.js, 93-95 of part_003)
RoundCoords ==
    /\ calc.phase = "raw"
    /\ LET rA == roundCoordOfDouble(calc.a)
           rB == roundCoordOfDouble(calc.b)
       IN  calc' = [ phase |-> "rounded", a |-> calc.a, b |-> calc.b,
                     rA |-> rA, rB |-> rB,
                     keysA |-> keysOf(rA), keysB |-> keysOf(rB) ]
    /\ UNCHANGED <<cache, lock, caller, lockOwner, written, fetched, overran,
                   visit, searched, stored>>

NextCoords == RoundCoords
SpecCoords == InitCoords /\ [][NextCoords]_vars

(***************************************************************************)
(* The key makers, applied to two place queries and two directions queries *)
(***************************************************************************)
\* place queries: what getNearbyPlaces is called with
PlaceIntents ==
    [ lat : {0 - 18, 12, 112}, lng : {0 - 18, 105, 112},
      radius : {1, 11, 100}, groceryMode : {"true", "false"} ]
\* directions queries: what getDirectionsDistance is called with
DirIntents ==
    [ originLat : {1, 12}, originLng : {0 - 18}, destLat : {12, 112},
      destLng : {0 - 18} ]

\* what the key of a place query is made of (lines 93-95 of part_003), and
\* that of a directions query (lines 69-75 of src/directions.js)
placeIntent(q) ==
    << roundCoord(q.lat), roundCoord(q.lng), q.radius, isGroceryMode(q.groceryMode) >>
dirIntent(q) ==
    << roundCoord(q.originLat), roundCoord(q.originLng),
       roundCoord(q.destLat), roundCoord(q.destLng) >>

\* two queries of each kind arrive
InitKeys ==
    /\ \E p \in PlaceIntents, q \in PlaceIntents, d \in DirIntents, e \in DirIntents :
          calc = [phase |-> "queries", p |-> p, q |-> q, d |-> d, e |-> e]
    /\ NoRequests

\* their cache keys and lock keys are made
MakeKeys ==
    /\ calc.phase = "queries"
    /\ calc' = [ phase |-> "keys", p |-> calc.p, q |-> calc.q, d |-> calc.d,
                 e |-> calc.e,
                 placeKeys |-> <<PlaceCacheKey(calc.p), PlaceCacheKey(calc.q)>>,
                 dirKeys |-> <<DirCacheKey(calc.d), DirCacheKey(calc.e)>>,
                 lockKeys |-> <<DirLockKey(calc.d), DirLockKey(calc.e)>> ]
    /\ UNCHANGED <<cache, lock, caller, lockOwner, written, fetched, overran,
                   visit, searched, stored>>

NextKeys == MakeKeys
SpecKeys == InitKeys /\ [][NextKeys]_vars

(***************************************************************************)
(* Properties of getDirectionsDistance                                     *)
(***************************************************************************)
Req == DOMAIN caller
Done(c) == caller[c].pc = "done"
NoStoreFailure == \A c \in Req : ~caller[c].storeErr

\* C1 (stampede bound): while no lock entry expires under its holder and no
\* store command fails, a request calls upstream for a key that upstream has
\* already been called for only after it has waited out its whole wait bound.
C1_StampedeBound ==
    (~overran /\ NoStoreFailure) =>
        \A c \in Req : caller[c].second => caller[c].exhausted

\* C3 (lock exclusivity): while no lock entry expires under its holder, at
\* most one request per key is between a truthy acquireLock and the end of
\* its call, and no acquireLock is truthy while the lock entry is present.
C3_LockExclusive ==
    ~overran =>
        /\ \A k \in LockKeys :
              Cardinality({c \in Req : Holding(c) /\ LockOf(c) = k}) <= 1
        /\ \A c \in Req : ~caller[c].sawLock

\* C4 (as stated): a request answered from the cache returns the payload the
\* call that wrote the entry returned, source included.
C4_IdenticalPayload ==
    \A c \in Req :
        (Done(c) /\ caller[c].result.source = "cache") =>
            caller[c].result = caller[c].hit

\* C4 (amended): a cache read over a live entry is always a hit; a request
\* answered from the cache has called no upstream and returns the distance
\* that was written to the entry it read, with source "cache".
C4_CacheHitReturnsStored ==
    \A c \in Req :
        /\ ~caller[c].missedLive
        /\ (Done(c) /\ caller[c].result.source = "cache") =>
              /\ caller[c].hit # NoResult
              /\ caller[c].result.distance_miles = caller[c].hit.distance_miles
              /\ caller[c].outcome = "none"
              /\ ~caller[c].exhausted
\* a request was answered from an entry holding a provider distance with a
\* fraction
C4_Witness ==
    \E c \in Req :
        /\ Done(c) /\ caller[c].result.source = "cache"
        /\ caller[c].hit.source = "google"
        /\ caller[c].result.distance_miles % NanoPerMile # 0

\* C5 (fallback totality): whatever the directions request comes to, a call
\* that meets no store failure returns a number, and when the request
\* failed that number is the great-circle distance between the two points
\* the call was given.
C5_FallbackTotal ==
    \A c \in Req :
        (Done(c) /\ caller[c].outcome # "none" /\ ~caller[c].storeErr) =>
            /\ caller[c].result.distance_miles # NaN
            /\ caller[c].outcome = "failed" =>
                  /\ caller[c].result.source = "fallback"
                  /\ caller[c].result.distance_miles =
                        straightLineMiles(caller[c].query.originLat,
                                          caller[c].query.originLng,
                                          caller[c].query.destLat,
                                          caller[c].query.destLng)

\* C7 (fallback is cached): an entry written by the fallback path holds the
\* fallback distance under the TTL of a provider distance; once the fallback
\* write is done the entry is there and truthy; a later read of it is a hit
\* that calls neither upstream nor the fallback again.
C7_FallbackCached ==
    /\ \A k \in CacheKeys :
          written[k].source = "fallback" =>
              cache[k] = [value |-> NumberToString(written[k].distance_miles),
                          ttl |-> successTtl]
    /\ \A c \in Req :
          /\ caller[c].pc = "delFb" =>
                /\ Truthy(redisGet(cache, KeyOf(c)))
                /\ cache[KeyOf(c)].ttl = successTtl
          /\ ~caller[c].missedLive
          /\ (Done(c) /\ caller[c].hit.source = "fallback") =>
                /\ caller[c].result.source = "cache"
                /\ caller[c].result.distance_miles = caller[c].hit.distance_miles
                /\ caller[c].outcome = "none"
\* a request was answered from an entry the fallback path wrote
C7_Witness ==
    \E c \in Req :
        /\ Done(c) /\ caller[c].result.source = "cache"
        /\ caller[c].hit.source = "fallback"
        /\ caller[c].result.distance_miles > 0

\* C8 (lock-wait protocol): a waiter sleeps one wait interval before each
\* cache read, stays in the loop only while the wait bound has not passed,
\* returns at the first read that finds an entry, leaves the loop once the
\* bound has passed, and so sends at most LOCK_MAX_WAIT_MS / LOCK_WAIT_MS
\* reads.
C8_LockWaitBounded ==
    \A c \in Req :
        /\ caller[c].polls <= LOCK_MAX_WAIT_MS \div LOCK_WAIT_MS
        /\ caller[c].pc = "poll" =>
              /\ caller[c].polls >= 1
              /\ caller[c].waited >= caller[c].polls * SleepTicks
        /\ caller[c].pc = "sleep" => caller[c].waited < MaxWaitTicks
        /\ (caller[c].exhausted /\ caller[c].pc = "fetch") =>
              /\ caller[c].waited >= MaxWaitTicks
              /\ ~caller[c].lockAcquired
        /\ ~caller[c].missedLive
\* a waiter has sent all its polls and left the loop by the bound
C8_Witness ==
    \E c \in Req :
        /\ caller[c].exhausted /\ caller[c].pc = "fetch"
        /\ caller[c].polls = LOCK_MAX_WAIT_MS \div LOCK_WAIT_MS

C10_StoreFailurePropagates ==
    \A c \in Req : caller[c].storeErr => ~Done(c)


(***************************************************************************)
(* Properties of getNearbyPlaces                                           *)
(***************************************************************************)
Vis == DOMAIN visit
NoPlaceStoreFailure == \A v \in Vis : ~visit[v].storeErr

\* C2 (shared search): while no store command fails, no place request sends
\* a nearby search for a key that a nearby search has already been sent for
\* since the key's entry was last absent: requests that meet on a cold key
\* share one search.
C2_SharedSearch ==
    NoPlaceStoreFailure => \A v \in Vis : ~visit[v].second

\* C6 (upstream failure is absorbed): a place request is rejected only by a
\* failing store command, never by a failing nearby search or reverse-geocode
\* call.
C6_UpstreamFailureAbsorbed ==
    \A v \in Vis : visit[v].pc = "rejected" => visit[v].storeErr

\* The place side of C4: a cache read over a live entry is a hit; a request
\* answered from the cache has called no upstream and returns the list that
\* was written to the entry it read, as JSON carries it.
PlacesHitReturnsStored ==
    \A v \in Vis :
        /\ ~visit[v].missedLive
        /\ (visit[v].pc = "done" /\ visit[v].via = "cache") =>
              /\ visit[v].hit # NoStored
              /\ visit[v].result = JSONparse(JSONstringify(visit[v].hit.places))
              /\ visit[v].radii = <<>>
              /\ visit[v].probes = 0

\* The place side of C7: whatever path made the list, the entry holds it
\* under PLACES_CACHE_TTL_SECONDS, and a request that returned a fallback
\* list has written it.
PlacesFallbackCached ==
    /\ \A k \in PlaceKeys :
          stored[k] # NoStored =>
              cache[k] = [value |-> JSONstringify(stored[k].places),
                          ttl |-> PLACES_CACHE_TTL_SECONDS]
    /\ \A k \in PlaceKeys : cache[k] # NoEntry => Truthy(redisGet(cache, k))

\* The place side of C10: a place request one of whose store commands failed
\* is rejected.
PlacesStoreFailurePropagates ==
    \A v \in Vis : visit[v].storeErr => visit[v].pc = "rejected"

(***************************************************************************)
(* The place search of every version (SpecVersions)                        *)
(***************************************************************************)
SearchPcs == {"search1", "search2"}
\* the searches of a request that have settled, those it has sent
Settled(v) == Len(visit[v].got)
Sent(v) == Len(visit[v].radii)

\* C11 (staged relaxation order): in every version a request sends at most
\* two searches; it sends a search only when every earlier one has settled;
\* and it awaits a second search only after a first that did not fail and
\* gave nothing the version keeps, so that it stops at the first search that
\* gives something and sends no third.
C11_StagedRelaxation ==
    \A v \in Vis :
        /\ Sent(v) <= 2
        /\ visit[v].pc = "search1" => (Sent(v) = 1 /\ Settled(v) = 0)
        /\ visit[v].pc = "search2" =>
              /\ Sent(v) = 2
              /\ Settled(v) = 1
              /\ ~visit[v].got[1].failed
              /\ ~visit[v].got[1].kept

\* a request of the oldest version has searched with the type at the radius
\* asked for, has searched again without it at the radius floor, has found
\* candidates and is writing the list made of them
C11_Witness ==
    \E v \in Vis :
        /\ visit[v].version = "v1"
        /\ visit[v].pc = "set"
        /\ visit[v].radii = <<FIRST_RADIUS, RADIUS_FLOOR_V1>>
        /\ visit[v].via = "primary"
        /\ visit[v].places # <<>>

(***************************************************************************)
(* The filter modes of the current place search (SpecPlaces)               *)
(***************************************************************************)
GroceryVisit(v) == isGroceryMode(visit[v].query.groceryMode)
\* an item as the geocoding fallback makes it: no place_id, no name
IsFallbackItem(it) == "place_id" \notin DOMAIN it /\ it.name = <<>>

\* C12 (filter-mode correctness): for a request in grocery mode, a search
\* that gave plain food places only (food types, no allow-listed retailer
\* name) gave nothing that is kept; after searches that all gave plain food
\* places the request goes on to the second search or to the geocoding
\* fallback and never to the cache write; and every item of places and of the
\* list returned is an item of the fallback or bears an allow-listed
\* retailer's name, so no unfiltered candidate is returned.
C12_GroceryFilter ==
    \A v \in Vis :
        GroceryVisit(v) =>
            /\ \A i \in DOMAIN visit[v].got :
                  visit[v].got[i].plain => ~visit[v].got[i].kept
            /\ (/\ visit[v].got # <<>>
                /\ \A i \in DOMAIN visit[v].got : visit[v].got[i].plain)
                  => /\ visit[v].pc = (IF Settled(v) = 1 THEN "search2" ELSE "fallback")
                     /\ visit[v].places = <<>>
            /\ \A list \in {visit[v].places, visit[v].result} :
                  \A i \in DOMAIN list :
                      IsFallbackItem(list[i]) \/ isMajorRetailer(list[i])

\* a request in grocery mode has found plain food places only in both
\* searches and is about to call the geocoding fallback
C12_Witness ==
    \E v \in Vis :
        /\ GroceryVisit(v)
        /\ visit[v].pc = "fallback"
        /\ Settled(v) = 2
        /\ visit[v].got[1].plain
        /\ visit[v].got[2].plain

(***************************************************************************)
(* Normalization (SpecCoords)                                              *)
(***************************************************************************)
\* C13 (normalization stability): two raw coordinates of one 0.001-degree
\* grid cell are floored to the same normalized coordinate and, the other
\* arguments being equal, give the same place key and the same directions
\* key; two raw coordinates of adjacent cells give different keys.
C13_NormalizationStable ==
    calc.phase = "rounded" =>
        /\ gridCell(calc.a) = gridCell(calc.b) =>
              /\ calc.rA = calc.rB
              /\ calc.keysA = calc.keysB
        /\ gridCell(calc.a) - gridCell(calc.b) \in {0 - 1, 1} =>
              /\ calc.keysA.places # calc.keysB.places
              /\ calc.keysA.directions # calc.keysB.directions

(***************************************************************************)
(* Keys (SpecKeys)                                                         *)
(***************************************************************************)
\* C14 (injective keys): two place queries that differ in normalized
\* latitude, normalized longitude, radius or mode have different cache keys,
\* and so have two directions queries that differ in a normalized
\* coordinate; no place key is a directions key; and no lock key is a cache
\* key of either kind.
C14_KeysInjective ==
    calc.phase = "keys" =>
        /\ placeIntent(calc.p) # placeIntent(calc.q) =>
              calc.placeKeys[1] # calc.placeKeys[2]
        /\ dirIntent(calc.d) # dirIntent(calc.e) => calc.dirKeys[1] # calc.dirKeys[2]
        /\ \A i, j \in 1..2 :
              /\ calc.placeKeys[i] # calc.dirKeys[j]
              /\ calc.lockKeys[i] # calc.dirKeys[j]
              /\ calc.lockKeys[i] # calc.placeKeys[j]

\* the keys of two place queries that differ in the radius only, with those
\* of two directions queries that differ in the destination only
C14_Witness ==
    /\ calc.phase = "keys"
    /\ calc.p.radius # calc.q.radius
    /\ [calc.p EXCEPT !.radius = calc.q.radius] = calc.q
    /\ calc.placeKeys[1] # calc.placeKeys[2]
    /\ calc.d.destLat # calc.e.destLat
    /\ calc.lockKeys[1] # calc.lockKeys[2]

(***************************************************************************)
(* The geocoding fallback (SpecPlaces)                                     *)
(***************************************************************************)
\* the address the geocoder gives for the offset i of a request
ProbeAddress(v, i) ==
    GeoAddress(visit[v].query.lat + offsets[i][1], visit[v].query.lng + offsets[i][2])

\* C15 (geocoding fallback bound): fetchGeocodingFallback sends one
\* reverse-geocode call per offset, in the order of the list: while it awaits
\* the call of offset i it has sent i calls, holds fewer than 10 results, and
\* its results are addresses of earlier offsets (of offsets 1 to i - 1 when
\* every probe finds one).  It returns at most 10 results, and it returns
\* before the last offset only with 10 results.
C15_FallbackBound ==
    \A v \in Vis :
        /\ visit[v].probes <= Len(offsets)
        /\ visit[v].pc = "geo" =>
              /\ visit[v].geoIdx \in 1..Len(offsets)
              /\ visit[v].probes = visit[v].geoIdx
              /\ Len(visit[v].results) < MAX_PLACES
              /\ Len(visit[v].results) <= visit[v].geoIdx - 1
              /\ visit[v].geoWorld = "allHit" =>
                    visit[v].results =
                        [j \in 1..(visit[v].geoIdx - 1) |-> ProbeAddress(v, j)]
        /\ (visit[v].pc \in {"set", "done"} /\ visit[v].via = "fallback") =>
              LET list == IF visit[v].pc = "set" THEN visit[v].places
                          ELSE visit[v].result
              IN  /\ Len(list) <= MAX_PLACES
                  /\ visit[v].probes = Len(offsets) \/ Len(list) >= MAX_PLACES

\* a fallback whose every probe found an address has returned: it sent nine
\* calls and the request has returned the nine addresses in the order of
\* the offsets
C15_Witness ==
    \E v \in Vis :
        /\ visit[v].pc = "done"
        /\ visit[v].via = "fallback"
        /\ visit[v].probes = 9
        /\ Len(visit[v].result) = 9
        /\ \A j \in 1..9 : visit[v].result[j].address = ProbeAddress(v, j)

(***************************************************************************)
(* The size of the lists (SpecVersions)                                    *)
(***************************************************************************)
\* the lists of a request (places, and what it returned) and those in the
\* cache entries
ListsOf(v) == {visit[v].places, visit[v].result}
CachedLists == {JSONparse(cache[k].value) : k \in {j \in PlaceKeys : cache[j] # NoEntry}}
\* the size a version cuts its primary list to
SliceOf(version) == IF version = "v4" THEN MAX_PLACES_V4 ELSE MAX_PLACES

C17_FailureEndsPlanner ==
    [][ \A v \in Vis :
          /\ ( /\ visit[v].pc \in SearchPcs
               /\ Len(visit'[v].got) = Len(visit[v].got) + 1
               /\ visit'[v].got[Len(visit'[v].got)].failed )
             => /\ visit'[v].pc = "fallback"
                /\ visit'[v].places = <<>>
                /\ visit'[v].radii = visit[v].radii
          /\ visit[v].pc \notin (SearchPcs \cup {"idle", "get"})
             => /\ visit'[v].radii = visit[v].radii
                /\ visit'[v].pc \notin SearchPcs ]_vars

\* the second search of a request has failed after an empty first one: the
\* request has sent two searches and is about to call the geocoding fallback
C17_Witness ==
    \E v \in Vis :
        /\ visit[v].pc = "fallback"
        /\ Settled(v) = 2
        /\ Sent(v) = 2
        /\ ~visit[v].got[1].failed
        /\ visit[v].got[2].failed
        /\ visit[v].places = <<>>

(***************************************************************************)
(* The release of the lock (SpecContend)                                   *)
(***************************************************************************)
\* C18 (release race): redis.del names the key and checks no owner, so the
\* release of a request leaves the key without a lock entry whoever made the
\* entry.  The witness is the interleaving this opens.
C18_ReleaseUnchecked ==
    [][ \A c \in Req :
          (caller[c].pc \in {"delOk", "delFb"} /\ caller'[c].pc = "done")
             => /\ lock'[LockOf(c)] = 0
                /\ lockOwner[LockOf(c)] \notin {None, c}
                      => caller'[c].freed = lockOwner[LockOf(c)] ]_vars

\* a request whose own lock entry had expired has removed, by its release,
\* the entry of a newer holder; a third request has acquired the lock since
\* and the newer holder is still awaiting upstream
C18_Witness ==
    \E a, b, c \in Req :
        /\ a # b /\ b # c /\ a # c
        /\ overran
        /\ caller[a].pc = "done"
        /\ caller[a].lockAcquired
        /\ caller[a].freed = b
        /\ caller[b].pc = "fetch"
        /\ caller[b].lockAcquired
        /\ caller[c].pc = "fetch"
        /\ caller[c].lockAcquired
        /\ lockOwner[LockOf(c)] = c
        /\ LockOf(b) = LockOf(c)

(***************************************************************************)
(* The lock entry heals itself (SpecHeal)                                  *)
(***************************************************************************)
Crashed(c) == caller[c].pc = "crashed"

\* c was in the wait loop when the process of a holder died
WaitedOn(c) == \E h \in Contenders : Crashed(h) /\ c \in caller[h].waiters
\* c has been made after the process of a holder died
MadeLater(c) ==
    /\ caller[c].pc # "idle"
    /\ \E h \in Contenders : Crashed(h) /\ c \in caller[h].laters

\* C19 (self-healing lock): a lock entry is created with the expiry EX
\* LOCK_TTL_SECONDS and only where the key holds none, no step renews or
\* extends an entry, and the store drops it; when the process of a holder has
\* died without releasing, every request that was in the wait loop and every
\* request made later returns a result (a later one unless its own process
\* dies holding the lock; one that was in the wait loop never holds it).
C19_SelfHealing ==
    /\ [][ \A k \in LockKeys :
             /\ lock[k] > 0 => lock'[k] \in {lock[k], 0}
             /\ (lock[k] > 0 /\ lock'[k] > 0) => lockOwner'[k] = lockOwner[k]
             /\ (lock[k] = 0 /\ lock'[k] > 0) => lock'[k] = LOCK_TTL_SECONDS ]_vars
    /\ (lock[HealLock] > 0) ~> (lock[HealLock] = 0)
    /\ [](\A c \in Contenders : WaitedOn(c) => ~Crashed(c))
    /\ \A c \in Contenders :
          (WaitedOn(c) \/ MadeLater(c)) ~> (Done(c) \/ Crashed(c))

\* the process of a holder died with the lock entry in place; a request that
\* was in the wait loop then and a request made afterwards have both returned
\* a result, and the entry is gone
C19_Witness ==
    \E h, w, l \in Req :
        /\ Crashed(h)
        /\ w \in caller[h].waiters /\ Done(w)
        /\ l \in caller[h].laters /\ Done(l)
        /\ l # w
        /\ lock[LockOf(h)] = 0

(***************************************************************************)
(* The order of the places (SpecVersions)                                  *)
(***************************************************************************)
\* the position in pool of the candidate item it was made of
PoolIndex(pool, it) == CHOOSE k \in 1..Len(pool) : pool[k].place_id = it.place_id

\* candidate a of the pool goes before candidate b: allow-listed retailers
\* first, then the nearer, then the one the provider gave first
RetailersThenNearer(retailer, distance, a, b) ==
    \/ retailer[a] /\ ~retailer[b]
    \/ retailer[a] = retailer[b] /\ distance[a] < distance[b]
    \/ retailer[a] = retailer[b] /\ distance[a] = distance[b] /\ a < b
\* the nearer first, then the one the provider gave first
Nearer(retailer, distance, a, b) ==
    \/ distance[a] < distance[b]
    \/ distance[a] = distance[b] /\ a < b
\* the one the provider gave first
ProviderOrder(retailer, distance, a, b) == a < b

\* list is the items of the first n candidates of pool in the order Before
FirstOf(list, pool, n, q, Before(_, _, _, _)) ==
    LET retailer == [k \in 1..Len(pool) |-> isMajorRetailer(pool[k])]
        distance == [k \in 1..Len(pool) |->
                        calculateDistance(roundCoord(q.lat), roundCoord(q.lng),
                                          pool[k].lat, pool[k].lng)]
        at == [i \in 1..Len(list) |-> PoolIndex(pool, list[i])]
    IN  /\ Len(list) = Min(Len(pool), n)
        /\ \A i \in 1..Len(list) :
              /\ \E k \in 1..Len(pool) : pool[k].place_id = list[i].place_id
              /\ list[i] = placeItem(pool[at[i]])
        /\ \A i, j \in 1..Len(list) :
              i < j => Before(retailer, distance, at[i], at[j])
        /\ \A k \in 1..Len(pool), j \in 1..Len(list) :
              (\A i \in 1..Len(list) : at[i] # k)
                 => Before(retailer, distance, at[j], k)

\* the visits whose places came from a search, and their list
Ranked(v) == visit[v].pool # <<>> /\ visit[v].pc \in {"set", "done"}
ListOf(v) == IF visit[v].pc = "set" THEN visit[v].places ELSE visit[v].result

NameDenied(name) ==
    LET lower == toLowerCase(name)
    IN  \E i \in 1..Len(blacklistKeywords) :
            \E a \in 0..Len(lower) :
                /\ a + Len(blacklistKeywords[i]) <= Len(lower)
                /\ \A j \in 1..Len(blacklistKeywords[i]) :
                      lower[a + j] = blacklistKeywords[i][j]

\* C21 (deny-list): no item that the primary search path put in places or
\* returned has a name containing a deny-list substring in any case, in
\* either mode, whatever the candidate's types and whether or not its name is
\* an allow-listed retailer's.
C21_DenyList ==
    \A v \in Vis :
        (\/ visit[v].via = "primary"
         \/ visit[v].via = "cache" /\ visit[v].hit.via = "primary") =>
            /\ \A i \in 1..Len(visit[v].places) : ~NameDenied(visit[v].places[i].name)
            /\ \A i \in 1..Len(visit[v].result) : ~NameDenied(visit[v].result[i].name)

\* the primary path has made places of a response that held a deny-listed
\* candidate with a food type and a deny-listed candidate bearing a retailer's
\* name, and has kept another candidate of it
C21_Witness ==
    \E v \in Vis :
        /\ visit[v].pc = "set" /\ visit[v].via = "primary"
        /\ visit[v].places # <<>>
        /\ visit[v].got # <<>>
        /\ visit[v].got[Len(visit[v].got)].denied

(***************************************************************************)
(* The items of the geocoding fallback (SpecPlaces)                        *)
(***************************************************************************)
\* the offset whose probe gave the address, 0 when none did
ProbeOf(v, address) ==
    IF \E k \in 1..Len(offsets) : ProbeAddress(v, k) = address
    THEN CHOOSE k \in 1..Len(offsets) : ProbeAddress(v, k) = address
    ELSE 0

\* C22 (fallback items): every item the geocoding fallback made for a request
\* has the empty name, no rating, the latitude and longitude the request was
\* made with, and the address the geocoder gave for one of the probes of the
\* request, the items following the order of the probes.
C22_FallbackItems ==
    \A v \in Vis :
        (visit[v].pc \in {"set", "done"} /\ visit[v].via = "fallback") =>
            LET list == IF visit[v].pc = "set" THEN visit[v].places
                        ELSE visit[v].result
                addresses == [k \in 1..Len(offsets) |-> ProbeAddress(v, k)]
                at == [i \in 1..Len(list) |->
                         IF \E k \in 1..Len(offsets) : addresses[k] = list[i].address
                         THEN CHOOSE k \in 1..Len(offsets) :
                                  addresses[k] = list[i].address
                         ELSE 0]
            IN  /\ \A i \in 1..Len(list) :
                      /\ DOMAIN list[i] = {"name", "address", "lat", "lng", "rating"}
                      /\ list[i].name = <<>>
                      /\ list[i].rating = NullRating
                      /\ list[i].lat = visit[v].query.lat
                      /\ list[i].lng = visit[v].query.lng
                      /\ at[i] # 0
                /\ \A i \in 1..(Len(list) - 1) : at[i] < at[i + 1]

\* a request made off the corner of its grid cell has returned fallback items,
\* one of them with the address of a probe away from the query point
C22_Witness ==
    \E v \in Vis :
        /\ visit[v].pc = "done" /\ visit[v].via = "fallback"
        /\ visit[v].query.lat # roundCoord(visit[v].query.lat)
        /\ \E i \in 1..Len(visit[v].result) :
              /\ ProbeOf(v, visit[v].result[i].address) > 1
              /\ visit[v].result[i].lat = visit[v].query.lat
              /\ visit[v].result[i].lat # visit[v].query.lat
                                            + offsets[ProbeOf(v, visit[v].result[i].address)][1]

(***************************************************************************)
(* The lock and the cache entry in getDirectionsDistance                   *)
(***************************************************************************)
\* C23 (as stated): the expiry a lock entry is created with is strictly
\* shorter than the timeout of the directions request.
C23_LockTtlBelowTimeout ==
    \A k \in LockKeys :
        lock[k] > 0 => lock[k] * 1000 < AXIOS_TIMEOUT_MS

\* a request is about to send, or has had carried out, its redis.del
Releasing(c) == caller[c].pc \in {"delOk", "delFb"}

C25_OnlyHolderDeletes ==
    [][ \A c \in Req :
          (Releasing(c) /\ ~caller[c].lockAcquired) => lock' = lock ]_vars

\* C26 (as stated): while an entry with the provider's distance is alive, no
\* write puts a straight-line fallback in its place.
C26_ProviderDistanceKept ==
    [][ \A k \in CacheKeys :
          (written[k] # NoResult /\ written[k].source = "google") =>
              (written'[k] = NoResult \/ written'[k].source = "google") ]_vars

(***************************************************************************)
(* The payload of a place key (SpecTwin)                                   *)
(***************************************************************************)
\* the request made its list itself
Made(v) == visit[v].pc = "done" /\ visit[v].via \in {"primary", "fallback"}

\* C27 (as stated): two requests of one place key that met the same upstream
\* behaviour and made their lists themselves stored and returned the same
\* payload.
C27_PayloadByKey ==
    \A v, w \in Vis :
        (Made(v) /\ Made(w) /\ PlaceKeyOf(v) = PlaceKeyOf(w)) =>
            JSONstringify(visit[v].result) = JSONstringify(visit[w].result)

=========================================================================
